---- MODULE Spec2Model ----
(***************************************************************************)
(* A model of the mpay ledger engine (src/mpay/mpay.py) and of the store   *)
(* it writes to (src/mpay/db.py, src/mpay/alembic/versions): users with    *)
(* cached balances, agents, currencies, hierarchical tags, transactions    *)
(* whose inserts, updates and deletes fire the balance triggers, and       *)
(* standing orders expanded into transactions by execute_orders.           *)
(*                                                                         *)
(* Money is an integer number of thousandths (money_type has scale 3).     *)
(* Instants are integers on one UTC time line; `now' is the wall clock.    *)
(* Optional values are sequences of length at most one: <<>> is None.      *)
(* The id of a row is its index in its table; a deleted row leaves a       *)
(* marker at its index.                                                    *)
(* `result' is how the last operation ended (the class it raised or what   *)
(* it returned), `asked' the questions it put to ask_confirmation.         *)
(* The free-text columns note and description carry no behaviour and are   *)
(* left out. The schema is the one the migrations build (setup_database    *)
(* upgrades to head): it has transactions.user_created_id, which every     *)
(* db.Transaction(...) of mpay.py sets. `revision' tells a store at the    *)
(* head from one that the last migration has not yet rewritten.            *)
(* A second process on the same store is its own session and locals:       *)
(* peer_pay is its pay call, peer_ex its execute_orders call.              *)
(***************************************************************************)
EXTENDS Integers, Sequences, FiniteSets, TLC

\* ------------------------------------------------------------------ bounds

MaxTime == 1
MaxTx == 1
MaxPays == 3
MaxTags == 1
MaxTagPays == 2
MaxImported == 2
MaxNetRows == 3
MaxTagRows == 4
MaxTaggedTx == 1
MaxSetTx == 2
MaxUserTx == 2
MaxDeleteTx == 2
MaxDeleteTags == 4
MaxSetupTx == 2
MaxRowTx == 2
MaxStoredTx == 1
MaxPathTx == 3
MaxPathTags == 6
MaxFrameTx == 1
MaxFrameTags == 2
MaxMoneyTx == 2
MaxLegacyTx == 2
MaxPeerTx == 2
Horizon == 6
ShortHorizon == 2

\* ------------------------------------------------------------------ inputs

UserNames == {"test1", "test2", "test3"}
InvalidUserNames == {"Uppercase"}
\* The names that do not match ^[a-z0-9_]+$ once stripped.
MalformedUserNames == InvalidUserNames \cup {"user with space", ""}
OrderNames == {"order1"}
Amounts == {-2, 0, 3}
OrderAmounts == {-1, 0, 1}
Intervals == {1, 2}
TagNames == {"a"}
InvalidTagNames == {""}
AgentNames == {"agent1"}
Currencies == {"USD", "EUR"}

None == <<>>
Some(x) == <<x>>

\* The hierarchical tag names the operations are called with.
TagPaths ==
    {<<"a">>, <<"a", "b">>, <<"c">>, <<"">>, <<"tag2">>, <<"a", "b", "tag2">>}
\* A hierarchical name typed with a blank before its slash: "a /b".
PaddedTagPaths == {<<"a ", "b">>}

\* The questions ask_confirmation is asked: what the question is of, and the
\* name its text carries. The callbacks answer them: the default one says
\* yes to all.
Question(kind, about) == [kind |-> kind, about |-> about]
Questions ==
    {Question("agent", <<n>>) : n \in AgentNames}
        \cup {Question("tag", p) : p \in TagPaths \cup PaddedTagPaths}
        \cup {Question("proceed", <<>>), Question("irreversible", <<>>)}
Answers == [Questions -> BOOLEAN]
Yes == [q \in Questions |-> TRUE]
No == [q \in Questions |-> FALSE]
\* The callback that declines the questions in Q and confirms the others.
YesExcept(Q) == [q \in Questions |-> q \notin Q]

VARIABLES
    users,          \* names of the rows of table users
    balance,        \* users.balance, by user name
    agents,         \* names of the rows of table agents
    tags,           \* rows of table tags; the id is the index
    transactions,   \* rows of table transactions; the id is the index
    orders,         \* rows of table standing_orders; the id is the index
    currencies,     \* rows of table currencies; the id is the index
    now,            \* the wall clock, read by datetime.now()
    ex,             \* the running execute_orders call: its locals and session
    revision,       \* the schema revision alembic_version records
    peer_ex,        \* a second client's execute_orders call, while it waits
    peer_pay,       \* a second client's pay call, between its reads and commit
    result,         \* how the most recent operation ended
    asked           \* the questions it put to ask_confirmation, in order

vars ==
    <<users, balance, agents, tags, transactions, orders, currencies, now,
      ex, revision, peer_ex, peer_pay, result, asked>>

store == <<users, balance, agents, tags, transactions, orders>>

\* ------------------------------------------------------------- arithmetic

abs(x) == IF x < 0 THEN -x ELSE x

RECURSIVE SumOver(_, _)
\* SQL SUM(converted_amount) over the rows with index in S.
SumOver(txs, S) ==
    IF S = {} THEN 0
    ELSE LET i == CHOOSE j \in S : TRUE
         IN txs[i].converted_amount + SumOver(txs, S \ {i})

incoming_sum(txs, u) == SumOver(txs, {i \in DOMAIN txs : txs[i].user_to = u})
outgoing_sum(txs, u) == SumOver(txs, {i \in DOMAIN txs : txs[i].user_from = u})

RECURSIVE balance_sum(_, _)
\* SQL SUM(balance) over the users in S.
balance_sum(bal, S) ==
    IF S = {} THEN 0
    ELSE LET u == CHOOSE v \in S : TRUE
         IN bal[u] + balance_sum(bal, S \ {u})

\* ------------------------------------------------------------------ store

\* Trigger update_balance_insert: two relative UPDATEs, in this order.
update_balance_insert_from_only(bal, t) ==
    [bal EXCEPT ![t.user_from] = @ - t.converted_amount]

update_balance_insert_swapped(bal, t) ==
    LET b1 == [bal EXCEPT ![t.user_from] = @ + t.converted_amount]
    IN [b1 EXCEPT ![t.user_to] = @ - t.converted_amount]

update_balance_insert(bal, t) ==
    LET b1 == [bal EXCEPT ![t.user_from] = @ - t.converted_amount]
    IN [b1 EXCEPT ![t.user_to] = @ + t.converted_amount]

\* Trigger update_balance_update without its two UPDATEs for the OLD row.
update_balance_update_new_only(bal, old, new) ==
    LET b1 == [bal EXCEPT ![new.user_from] = @ - new.converted_amount]
    IN [b1 EXCEPT ![new.user_to] = @ + new.converted_amount]

\* Trigger update_balance_update: four relative UPDATEs, in this order.
update_balance_update(bal, old, new) ==
    LET b1 == [bal EXCEPT ![old.user_from] = @ + old.converted_amount]
        b2 == [b1 EXCEPT ![old.user_to] = @ - old.converted_amount]
        b3 == [b2 EXCEPT ![new.user_from] = @ - new.converted_amount]
    IN [b3 EXCEPT ![new.user_to] = @ + new.converted_amount]

\* Trigger update_balance_delete: two relative UPDATEs, in this order.
update_balance_delete(bal, t) ==
    LET b1 == [bal EXCEPT ![t.user_from] = @ + t.converted_amount]
    IN [b1 EXCEPT ![t.user_to] = @ - t.converted_amount]

\* The revisions of the migration chain that differ in table transactions:
\* the head, and the one it revises (which differs from the first revision
\* in table standing_orders only).
HEAD == "931cbe1524ae"
DOWN_REVISION == "6fb1631eadba"

\* What column user_created_id holds in a row written before the column
\* existed: NULL.
NoUser == "(null)"

\* The CHECK and FOREIGN KEY constraints of table transactions as the first
\* revision creates it: nothing is said about the sign of an amount.
TransactionLegacyConstraints(t, us) ==
    /\ t.user_from \in us
    /\ t.user_to \in us
    /\ (t.original_currency = None) = (t.original_amount = None)
    /\ t.user_from # t.user_to
    /\ t.dt_due_utc <= t.dt_created_utc

\* What revision 931cbe1524ae adds, without its CHECK converted_amount >= 0.
TransactionMigratedConstraints_amount_unchecked(t, us) ==
    /\ t.user_created \in us
    /\ t.original_amount = None \/ t.original_amount[1] >= 0

\* What revision 931cbe1524ae adds to table transactions: the column
\* user_created_id with its foreign key, and two CHECK constraints.
TransactionMigratedConstraints(t, us) ==
    /\ t.user_created \in us
    /\ t.converted_amount >= 0
    /\ t.original_amount = None \/ t.original_amount[1] >= 0

\* The CHECK and FOREIGN KEY constraints of table transactions.
TransactionConstraints_due_before(t, us) ==
    /\ t.user_from \in us
    /\ t.user_to \in us
    /\ (t.original_currency = None) = (t.original_amount = None)
    /\ t.user_from # t.user_to
    /\ t.dt_due_utc < t.dt_created_utc
    /\ TransactionMigratedConstraints(t, us)

TransactionConstraints_unpaired(t, us) ==
    /\ t.user_from \in us
    /\ t.user_to \in us
    /\ t.user_from # t.user_to
    /\ t.dt_due_utc <= t.dt_created_utc
    /\ TransactionMigratedConstraints(t, us)

TransactionConstraints(t, us) ==
    /\ t.user_from \in us
    /\ t.user_to \in us
    /\ (t.original_currency = None) = (t.original_amount = None)
    /\ t.user_from # t.user_to
    /\ t.dt_due_utc <= t.dt_created_utc
    /\ TransactionMigratedConstraints(t, us)

\* db.Transaction(...): the row as flushed at instant `created'. tgs is the
\* set of the ids of its tags (its rows of transactions_tags).
Transaction(from, to, by, amount, due, created, order, agent, original_amount, original_currency, tgs) ==
    [user_from |-> from, user_to |-> to, user_created |-> by,
     converted_amount |-> amount, dt_due_utc |-> due,
     dt_created_utc |-> created, standing_order |-> order, agent |-> agent,
     original_amount |-> original_amount,
     original_currency |-> original_currency, tags |-> tgs]

\* What is left at the id of a deleted row of transactions: ids are not
\* filled in again, and the row counts for no user and no sum.
DeletedTransaction ==
    Transaction("(deleted)", "(deleted)", "(deleted)", 0, 0, 0, None, None,
                None, None, {})

RECURSIVE InsertAll(_, _)
\* The balances after the insert trigger has fired for each row of txs.
InsertAll(bal, txs) ==
    IF txs = <<>> THEN bal
    ELSE InsertAll(update_balance_insert(bal, Head(txs)), Tail(txs))

\* The UNIQUE (name, parent_id), FOREIGN KEY and CHECK constraints of table
\* tags, for a new row t. In a UNIQUE constraint NULL parents are distinct.
TagConstraints(t, tgs) ==
    /\ t.parent # None => t.parent[1] \in DOMAIN tgs
    /\ \A i \in DOMAIN tgs :
          ~(t.parent # None /\ tgs[i].name = t.name /\ tgs[i].parent = t.parent)

\* db.Tag(name=..., parent=...).
Tag(name, parent) == [name |-> name, parent |-> parent]

\* ------------------------------------------------------------------ setup

\* The rows setup_database offers to table currencies, in the order of the
\* dict.
CURRENCIES ==
    <<[iso_4217 |-> "USD", name |-> "United States dollar"],
      [iso_4217 |-> "EUR", name |-> "Euro"]>>

\* The codes held by the rows of table currencies.
iso_4217s(rows) == {rows[i].iso_4217 : i \in DOMAIN rows}

RECURSIVE insert_or_ignore(_, _)
\* INSERT OR IGNORE of the rows, in order: a row whose code the table holds
\* would break uq_currencies_iso_4217 and is skipped.
insert_or_ignore(rows, table) ==
    IF rows = <<>> THEN table
    ELSE insert_or_ignore(Tail(rows),
                          IF Head(rows).iso_4217 \in iso_4217s(table)
                          THEN table ELSE Append(table, Head(rows)))

\* upgrade() of revision 931cbe1524ae, first UPDATE: user_created_id is
\* user_from_id where it is NULL.
upgrade_user_created(t) ==
    IF t.user_created = NoUser THEN [t EXCEPT !.user_created = t.user_from]
    ELSE t

\* The second UPDATE negating the amounts and leaving the two users.
upgrade_negative_negated_only(t) ==
    IF t.converted_amount < 0
    THEN [t EXCEPT !.converted_amount = -@,
                   !.original_amount = IF @ = None THEN None ELSE <<-@[1]>>]
    ELSE t

\* upgrade(), second UPDATE, for the rows with converted_amount < 0: every
\* right-hand side is read from the row as it was, so the two users change
\* places; minus NULL is NULL.
upgrade_negative(t) ==
    IF t.converted_amount < 0
    THEN [t EXCEPT !.user_from = t.user_to,
                   !.user_to = t.user_from,
                   !.converted_amount = -@,
                   !.original_amount = IF @ = None THEN None ELSE <<-@[1]>>]
    ELSE t

RECURSIVE UpdateAll(_, _, _)
\* The balances after an UPDATE statement turned the rows olds into news:
\* trigger update_balance_update fires for each row the statement matched,
\* which are the rows it changed.
UpdateAll(bal, olds, news) ==
    IF olds = <<>> THEN bal
    ELSE UpdateAll(IF Head(olds) = Head(news) THEN bal
                   ELSE update_balance_update(bal, Head(olds), Head(news)),
                   Tail(olds), Tail(news))

\* The balances after the two UPDATEs of upgrade(): both run while the
\* triggers of the earlier revision are in place.
upgrade_balance(bal, txs) ==
    LET rows1 == [i \in DOMAIN txs |-> upgrade_user_created(txs[i])]
        rows2 == [i \in DOMAIN txs |-> upgrade_negative(rows1[i])]
    IN UpdateAll(UpdateAll(bal, txs, rows1), rows1, rows2)

\* setup_database with a plain INSERT: a code the table holds fails the
\* statement and nothing is committed.
setup_database_insert ==
    /\ IF iso_4217s(CURRENCIES) \cap iso_4217s(currencies) # {}
       THEN result' = "IntegrityError" /\ UNCHANGED currencies
       ELSE currencies' = currencies \o CURRENCIES /\ result' = "ok"
    /\ asked' = <<>>
    /\ UNCHANGED <<store, now, revision, peer_ex, peer_pay, ex>>

\* alembic.command.upgrade(alembic_cfg, "head"), then the currencies are
\* offered to the table. A store at head has no migration to run. A store at
\* the revision before runs upgrade() of 931cbe1524ae: its two UPDATEs, then
\* the table is rebuilt with the two CHECK constraints, which a rewritten row
\* may fail, and the triggers are created again. A failed upgrade raises out
\* of setup_database and is taken to leave the store as it was.
setup_database ==
    /\ IF revision = HEAD
       THEN /\ currencies' = insert_or_ignore(CURRENCIES, currencies)
            /\ result' = "ok"
            /\ UNCHANGED <<store, revision>>
       ELSE LET rows == [i \in DOMAIN transactions |->
                            upgrade_negative(
                               upgrade_user_created(transactions[i]))]
            IN IF \E i \in DOMAIN rows :
                     /\ rows[i] # DeletedTransaction
                     /\ ~TransactionMigratedConstraints(rows[i], users)
               THEN /\ result' = "IntegrityError"
                    /\ UNCHANGED <<store, revision, currencies>>
               ELSE /\ transactions' = rows
                    /\ balance' = upgrade_balance(balance, transactions)
                    /\ revision' = HEAD
                    /\ currencies' = insert_or_ignore(CURRENCIES, currencies)
                    /\ result' = "ok"
                    /\ UNCHANGED <<users, agents, tags, orders>>
    /\ asked' = <<>>
    /\ UNCHANGED <<now, peer_ex, peer_pay, ex>>

\* ------------------------------------------------------------- operations

\* str.strip(), on the names the model uses.
strip(s) ==
    IF s = " test2 " THEN "test2"
    ELSE IF s = " test1 " THEN "test1"
    ELSE IF s = " order1 " THEN "order1"
    ELSE IF s = "a " THEN "a" ELSE s

\* The sanitize_ functions: None when they raise MpayValueError, else the
\* stripped name.
sanitize_user_name_unchecked(username) == Some(strip(username))

sanitize_user_name(username) ==
    IF strip(username) \in MalformedUserNames THEN None
    ELSE Some(strip(username))

sanitize_tag_name(tag_name) ==
    IF strip(tag_name) \in InvalidTagNames THEN None ELSE Some(strip(tag_name))

sanitize_order_name(order_name) ==
    IF strip(order_name) = "" THEN None ELSE Some(strip(order_name))

sanitize_agent_name(agent_name) ==
    IF strip(agent_name) = "" THEN None ELSE Some(strip(agent_name))

Idle == ex.pc = "idle"

\* create_user writing balance 0 to every user.
create_user_resets_balances(username) ==
    /\ IF sanitize_user_name(username) = None
       THEN /\ result' = "MpayValueError"
            /\ UNCHANGED store
       ELSE LET name == sanitize_user_name(username)[1]
            IN IF name \in users
               THEN /\ result' = "IntegrityError"
                    /\ UNCHANGED store
               ELSE /\ users' = users \cup {name}
                    /\ balance' = [u \in users \cup {name} |-> 0]
                    /\ result' = "ok"
                    /\ UNCHANGED <<agents, tags, transactions, orders>>
    /\ asked' = <<>>
    /\ UNCHANGED <<now, currencies, revision, peer_ex, peer_pay, ex>>

create_user(username) ==
    /\ IF sanitize_user_name(username) = None
       THEN /\ result' = "MpayValueError"
            /\ UNCHANGED store
       ELSE LET name == sanitize_user_name(username)[1]
            IN IF name \in users
               THEN /\ result' = "IntegrityError"
                    /\ UNCHANGED store
               ELSE /\ users' = users \cup {name}
                    /\ balance' = [u \in users \cup {name} |->
                                      IF u = name THEN 0 ELSE balance[u]]
                    /\ result' = "ok"
                    /\ UNCHANGED <<agents, tags, transactions, orders>>
    /\ asked' = <<>>
    /\ UNCHANGED <<now, currencies, revision, peer_ex, peer_pay, ex>>

Tick(horizon) ==
    /\ now < horizon
    /\ now' = now + 1
    /\ UNCHANGED <<store, currencies, revision, peer_ex, peer_pay, ex, result, asked>>

\* ------------------------------------------------------------------ tags

\* A hierarchical name is the sequence of the names on its path, the result
\* of split("/").

RECURSIVE find_tag_from(_, _, _)
\* The loop of find_tag from `parent' on: .one() raises unless exactly one
\* row has the name and the parent.
find_tag_from(path, parent, tgs) ==
    LET found == {i \in DOMAIN tgs :
                     tgs[i].name = Head(path) /\ tgs[i].parent = parent}
    IN IF found = {}
       THEN [status |-> "NoResultFound", tag |-> 0]
       ELSE IF Cardinality(found) > 1
       THEN [status |-> "MultipleResultsFound", tag |-> 0]
       ELSE LET current == CHOOSE i \in found : TRUE
            IN IF Len(path) = 1
               THEN [status |-> "ok", tag |-> current]
               ELSE find_tag_from(Tail(path), Some(current), tgs)

\* find_tag looking for the last name of the path among the root tags.
find_tag_leaf(hierarchical_name, tgs) ==
    find_tag_from(<<hierarchical_name[Len(hierarchical_name)]>>, None, tgs)

find_tag(hierarchical_name, tgs) == find_tag_from(hierarchical_name, None, tgs)

RECURSIVE create_hierarchical_tag_from(_, _, _)
\* The loop of create_hierarchical_tag from `parent' on; tgs is the table as
\* the session sees it, with the rows it has added.
create_hierarchical_tag_from(path, parent, tgs) ==
    LET found == {i \in DOMAIN tgs :
                     tgs[i].name = Head(path) /\ tgs[i].parent = parent}
        name == sanitize_tag_name(Head(path))
    IN IF Cardinality(found) > 1
       THEN [status |-> "MultipleResultsFound", tags |-> tgs, tag |-> 0]
       ELSE IF found = {} /\ name = None
       THEN [status |-> "MpayValueError", tags |-> tgs, tag |-> 0]
       ELSE IF found = {} /\ ~TagConstraints(Tag(name[1], parent), tgs)
       THEN [status |-> "IntegrityError", tags |-> tgs, tag |-> 0]
       ELSE LET tgs2 == IF found = {} THEN Append(tgs, Tag(name[1], parent))
                        ELSE tgs
                current == IF found = {} THEN Len(tgs2)
                           ELSE CHOOSE i \in found : TRUE
            IN IF Len(path) = 1
               THEN [status |-> "ok", tags |-> tgs2, tag |-> current]
               ELSE create_hierarchical_tag_from(Tail(path), Some(current),
                                                 tgs2)

create_hierarchical_tag(hierarchical_name, tgs) ==
    create_hierarchical_tag_from(hierarchical_name, None, tgs)

RECURSIVE hierarchical_name(_, _)
\* Tag.hierarchical_name of the tag with id i: the names from the root down
\* to the tag.
hierarchical_name(i, tgs) ==
    IF tgs[i].parent = None THEN <<tgs[i].name>>
    ELSE Append(hierarchical_name(tgs[i].parent[1], tgs), tgs[i].name)

\* create_tag that also writes the new row as the parent of its own parent.
create_tag_adopts_parent(tag_name, parent_hierarchical_name) ==
    LET name == sanitize_tag_name(tag_name)
        parent == IF parent_hierarchical_name = None
                  THEN [status |-> "ok", tag |-> 0]
                  ELSE find_tag(parent_hierarchical_name[1], tags)
        t == Tag(name[1], IF parent_hierarchical_name = None THEN None
                          ELSE Some(parent.tag))
    IN
    /\ IF name = None
       THEN result' = "MpayValueError" /\ UNCHANGED store
       ELSE IF parent.status = "NoResultFound"
       THEN result' = "MpayException" /\ UNCHANGED store
       ELSE IF parent.status # "ok"
       THEN result' = parent.status /\ UNCHANGED store
       ELSE IF ~TagConstraints(t, tags)
       THEN result' = "IntegrityError" /\ UNCHANGED store
       ELSE /\ tags' = [i \in 1..(Len(tags) + 1) |->
                           IF i = Len(tags) + 1 THEN t
                           ELSE IF t.parent = Some(i)
                           THEN [tags[i] EXCEPT !.parent = Some(Len(tags) + 1)]
                           ELSE tags[i]]
            /\ result' = "ok"
            /\ UNCHANGED <<users, balance, agents, transactions, orders>>
    /\ asked' = <<>>
    /\ UNCHANGED <<now, currencies, revision, peer_ex, peer_pay, ex>>

\* Mpay.create_tag; parent_hierarchical_name is None or Some(path).
create_tag(tag_name, parent_hierarchical_name) ==
    LET name == sanitize_tag_name(tag_name)
        parent == IF parent_hierarchical_name = None
                  THEN [status |-> "ok", tag |-> 0]
                  ELSE find_tag(parent_hierarchical_name[1], tags)
        t == Tag(name[1], IF parent_hierarchical_name = None THEN None
                          ELSE Some(parent.tag))
    IN
    /\ IF name = None
       THEN result' = "MpayValueError" /\ UNCHANGED store
       ELSE IF parent.status = "NoResultFound"
       THEN result' = "MpayException" /\ UNCHANGED store
       ELSE IF parent.status # "ok"
       THEN result' = parent.status /\ UNCHANGED store
       ELSE IF ~TagConstraints(t, tags)
       THEN result' = "IntegrityError" /\ UNCHANGED store
       ELSE /\ tags' = Append(tags, t)
            /\ result' = "ok"
            /\ UNCHANGED <<users, balance, agents, transactions, orders>>
    /\ asked' = <<>>
    /\ UNCHANGED <<now, currencies, revision, peer_ex, peer_pay, ex>>

create_agent(agent_name) ==
    /\ IF sanitize_agent_name(agent_name) = None
       THEN result' = "MpayValueError" /\ UNCHANGED store
       ELSE IF sanitize_agent_name(agent_name)[1] \in agents
       THEN result' = "IntegrityError" /\ UNCHANGED store
       ELSE /\ agents' = agents \cup {sanitize_agent_name(agent_name)[1]}
            /\ result' = "ok"
            /\ UNCHANGED <<users, balance, tags, transactions, orders>>
    /\ asked' = <<>>
    /\ UNCHANGED <<now, currencies, revision, peer_ex, peer_pay, ex>>

\* ------------------------------------------------------------------- pay

RECURSIVE pay_tags(_, _, _)
\* The loop of pay over tag_hierarchical_names: each is found, or created
\* after a confirmation. ids are the tags of the transaction.
pay_tags(names, tgs, ask) ==
    IF names = <<>>
    THEN [status |-> "ok", tags |-> tgs, ids |-> {}, asked |-> <<>>]
    ELSE LET f == find_tag(Head(names), tgs)
             q == IF f.status = "NoResultFound"
                  THEN <<Question("tag", Head(names))>> ELSE <<>>
             c == IF f.status = "ok"
                  THEN [status |-> "ok", tags |-> tgs, tag |-> f.tag]
                  ELSE create_hierarchical_tag(Head(names), tgs)
             rest == pay_tags(Tail(names), c.tags, ask)
         IN IF f.status = "MultipleResultsFound"
            THEN [status |-> f.status, tags |-> tgs, ids |-> {},
                  asked |-> <<>>]
            ELSE IF f.status = "NoResultFound" /\ ~ask[q[1]]
            THEN [status |-> "MpayException", tags |-> tgs, ids |-> {},
                  asked |-> q]
            ELSE IF c.status # "ok"
            THEN [status |-> c.status, tags |-> tgs, ids |-> {},
                  asked |-> q]
            ELSE IF rest.status # "ok"
            THEN [rest EXCEPT !.asked = q \o @]
            ELSE [rest EXCEPT !.ids = @ \cup {c.tag}, !.asked = q \o @]

\* The row pay inserts: a negative amount swaps the two ends (lines 286-302).
pay_transaction_noflip(sender, recipient, converted_amount, due_utc, original_currency, original_amount, agent, tgs) ==
    Transaction(sender, recipient, sender, abs(converted_amount), due_utc,
                now, None, agent,
                IF original_amount = None THEN None
                ELSE Some(abs(original_amount[1])),
                original_currency, tgs)

pay_transaction(sender, recipient, converted_amount, due_utc, original_currency, original_amount, agent, tgs) ==
    LET s == IF converted_amount >= 0 THEN sender ELSE recipient
        r == IF converted_amount >= 0 THEN recipient ELSE sender
    IN Transaction(s, r, sender, abs(converted_amount), due_utc, now, None,
                   agent,
                   IF original_amount = None THEN None
                   ELSE Some(abs(original_amount[1])),
                   original_currency, tgs)

\* The check `sender == recipient' of pay (lines 249-252).
same_user_unchecked(sender, recipient) == FALSE

same_user(sender, recipient) == sender = recipient

\* pay with a session that commits the agent and every tag as it adds them.
pay_autocommit(me, recipient_name, converted_amount, due, original_currency, original_amount, agent_name, tag_hierarchical_names, ask) ==
    LET recipient == sanitize_user_name(recipient_name)
        due_utc == IF due = None THEN now ELSE due[1]
        agent == IF agent_name = None THEN None
                 ELSE sanitize_agent_name(agent_name[1])
        q == IF agent # None /\ agent[1] \notin agents
             THEN <<Question("agent", agent)>> ELSE <<>>
        tg == pay_tags(tag_hierarchical_names, tags, ask)
        t == pay_transaction(me, recipient[1], converted_amount, due_utc,
                             original_currency, original_amount, agent,
                             tg.ids)
    IN
    /\ IF recipient = None
       THEN result' = "MpayValueError" /\ asked' = <<>> /\ UNCHANGED store
       ELSE IF me \notin users \/ recipient[1] \notin users
               \/ same_user(me, recipient[1])
       THEN result' = "MpayException" /\ asked' = <<>> /\ UNCHANGED store
       ELSE IF /\ original_currency # None
               /\ original_currency[1] \notin iso_4217s(currencies)
       THEN result' = "MpayValueError" /\ asked' = <<>> /\ UNCHANGED store
       ELSE IF agent_name # None /\ agent = None
       THEN result' = "MpayValueError" /\ asked' = <<>> /\ UNCHANGED store
       ELSE IF q # <<>> /\ ~ask[q[1]]
       THEN result' = "MpayException" /\ asked' = q /\ UNCHANGED store
       ELSE IF tg.status # "ok" \/ ~TransactionConstraints(t, users)
       THEN /\ result' = IF tg.status # "ok" THEN tg.status
                         ELSE "IntegrityError"
            /\ asked' = q \o tg.asked
            /\ agents' = IF agent = None THEN agents
                         ELSE agents \cup {agent[1]}
            /\ tags' = tg.tags
            /\ UNCHANGED <<users, balance, transactions, orders>>
       ELSE /\ transactions' = Append(transactions, t)
            /\ balance' = update_balance_insert(balance, t)
            /\ agents' = IF agent = None THEN agents
                         ELSE agents \cup {agent[1]}
            /\ tags' = tg.tags
            /\ result' = "ok"
            /\ asked' = q \o tg.asked
            /\ UNCHANGED <<users, orders>>
    /\ UNCHANGED <<now, currencies, revision, peer_ex, peer_pay, ex>>

\* Mpay.pay by current user `me' (config.user). due, original_currency,
\* original_amount and agent_name are None or Some(value); ask is the
\* ask_confirmation callback.
pay(me, recipient_name, converted_amount, due, original_currency, original_amount, agent_name, tag_hierarchical_names, ask) ==
    LET recipient == sanitize_user_name(recipient_name)
        due_utc == IF due = None THEN now ELSE due[1]
        agent == IF agent_name = None THEN None
                 ELSE sanitize_agent_name(agent_name[1])
        q == IF agent # None /\ agent[1] \notin agents
             THEN <<Question("agent", agent)>> ELSE <<>>
        tg == pay_tags(tag_hierarchical_names, tags, ask)
        t == pay_transaction(me, recipient[1], converted_amount, due_utc,
                             original_currency, original_amount, agent,
                             tg.ids)
    IN
    /\ IF recipient = None
       THEN result' = "MpayValueError" /\ asked' = <<>> /\ UNCHANGED store
       ELSE IF me \notin users \/ recipient[1] \notin users
               \/ same_user(me, recipient[1])
       THEN result' = "MpayException" /\ asked' = <<>> /\ UNCHANGED store
       ELSE IF /\ original_currency # None
               /\ original_currency[1] \notin iso_4217s(currencies)
       THEN result' = "MpayValueError" /\ asked' = <<>> /\ UNCHANGED store
       ELSE IF agent_name # None /\ agent = None
       THEN result' = "MpayValueError" /\ asked' = <<>> /\ UNCHANGED store
       ELSE IF q # <<>> /\ ~ask[q[1]]
       THEN result' = "MpayException" /\ asked' = q /\ UNCHANGED store
       ELSE IF tg.status # "ok"
       THEN result' = tg.status /\ asked' = q \o tg.asked
            /\ UNCHANGED store
       ELSE IF ~TransactionConstraints(t, users)
       THEN result' = "IntegrityError" /\ asked' = q \o tg.asked
            /\ UNCHANGED store
       ELSE /\ transactions' = Append(transactions, t)
            /\ balance' = update_balance_insert(balance, t)
            /\ agents' = IF agent = None THEN agents
                         ELSE agents \cup {agent[1]}
            /\ tags' = tg.tags
            /\ result' = "ok"
            /\ asked' = q \o tg.asked
            /\ UNCHANGED <<users, orders>>
    /\ UNCHANGED <<now, currencies, revision, peer_ex, peer_pay, ex>>

\* What a call of pay that does not raise returns: session.commit() is its
\* last statement (lines 303-304) and it has no return statement, so the
\* caller gets None, not the id of the row.
pay_return_value == None

\* ------------------------------------------- tags of stored transactions

\* add_tags putting the resolved tags in the place of the former ones.
add_tags_replace(transaction_ids, tag_hierarchical_names, ask) ==
    LET tg == pay_tags(tag_hierarchical_names, tags, ask)
    IN
    /\ transaction_ids \subseteq DOMAIN transactions
    /\ IF tg.status # "ok"
       THEN result' = tg.status /\ asked' = tg.asked /\ UNCHANGED store
       ELSE /\ transactions' =
                  [i \in DOMAIN transactions |->
                      IF i \in transaction_ids
                      THEN [transactions[i] EXCEPT !.tags = tg.ids]
                      ELSE transactions[i]]
            /\ tags' = tg.tags
            /\ result' = "ok"
            /\ asked' = tg.asked
            /\ UNCHANGED <<users, balance, agents, orders>>
    /\ UNCHANGED <<now, currencies, revision, peer_ex, peer_pay, ex>>

\* Mpay.add_tags(transaction_ids, tag_hierarchical_names): every name is
\* resolved as pay resolves it, a missing tag being created after a
\* confirmation, and every resolved tag is associated with every listed
\* transaction, in one unit of work. What an id of no transaction does is
\* not described: the ids are ids of stored transactions.
add_tags(transaction_ids, tag_hierarchical_names, ask) ==
    LET tg == pay_tags(tag_hierarchical_names, tags, ask)
    IN
    /\ transaction_ids \subseteq DOMAIN transactions
    /\ IF tg.status # "ok"
       THEN result' = tg.status /\ asked' = tg.asked /\ UNCHANGED store
       ELSE /\ transactions' =
                  [i \in DOMAIN transactions |->
                      IF i \in transaction_ids
                      THEN [transactions[i] EXCEPT !.tags = @ \cup tg.ids]
                      ELSE transactions[i]]
            /\ tags' = tg.tags
            /\ result' = "ok"
            /\ asked' = tg.asked
            /\ UNCHANGED <<users, balance, agents, orders>>
    /\ UNCHANGED <<now, currencies, revision, peer_ex, peer_pay, ex>>

RECURSIVE find_tags(_, _)
\* The names of remove_tags resolved by find_tag, none being created.
find_tags(names, tgs) ==
    IF names = <<>> THEN [status |-> "ok", ids |-> {}]
    ELSE LET f == find_tag(Head(names), tgs)
             rest == find_tags(Tail(names), tgs)
         IN IF f.status # "ok" THEN [status |-> f.status, ids |-> {}]
            ELSE IF rest.status # "ok" THEN rest
            ELSE [rest EXCEPT !.ids = @ \cup {f.tag}]

\* Mpay.remove_tags(transaction_ids, tag_hierarchical_names): every name is
\* resolved, a missing tag being an error, and the association of every
\* resolved tag with every listed transaction is removed.
remove_tags(transaction_ids, tag_hierarchical_names) ==
    LET tg == find_tags(tag_hierarchical_names, tags)
    IN
    /\ transaction_ids \subseteq DOMAIN transactions
    /\ IF tg.status # "ok"
       THEN result' = tg.status /\ UNCHANGED store
       ELSE /\ transactions' =
                  [i \in DOMAIN transactions |->
                      IF i \in transaction_ids
                      THEN [transactions[i] EXCEPT !.tags = @ \ tg.ids]
                      ELSE transactions[i]]
            /\ result' = "ok"
            /\ UNCHANGED <<users, balance, agents, tags, orders>>
    /\ asked' = <<>>
    /\ UNCHANGED <<now, currencies, revision, peer_ex, peer_pay, ex>>

\* ------------------------------------------------------------- import_df

\* A row of the dataframe has an amount and the text dt_due.
\* datetime.fromisoformat(text): the instant, or None when it raises
\* ValueError; a text is modelled by what it parses to.
fromisoformat(text) == text

\* import_df sending every row from user2 to user1, whatever its sign.
import_row_one_way(row, user1, user2, agent, created) ==
    Transaction(user2, user1, user2, abs(row.amount),
                fromisoformat(row.dt_due)[1], created, None, Some(agent),
                None, None, {})

\* The Transaction import_df builds from one row of the dataframe.
import_row(row, user1, user2, agent, created) ==
    IF row.amount > 0
    THEN Transaction(user2, user1, user2, abs(row.amount),
                     fromisoformat(row.dt_due)[1], created, None,
                     Some(agent), None, None, {})
    ELSE Transaction(user1, user2, user1, abs(row.amount),
                     fromisoformat(row.dt_due)[1], created, None,
                     Some(agent), None, None, {})

RECURSIVE import_user1_balance(_)
\* user1_balance of import_df after its loop over the rows of df: the figure
\* the question to proceed shows, next to count = Len(df).
import_user1_balance(df) ==
    IF df = <<>> THEN 0
    ELSE Head(df).amount + import_user1_balance(Tail(df))

\* import_df with a session that commits the agent when it adds it.
import_df_agent_committed(df, user1_name, user2_name, agent_name, ask) ==
    LET agent == sanitize_agent_name(agent_name)
        user1 == sanitize_user_name(user1_name)
        user2 == sanitize_user_name(user2_name)
        q == IF agent # None /\ agent[1] \notin agents
             THEN <<Question("agent", agent)>> ELSE <<>>
        proceed == <<Question("proceed", <<>>)>>
        txs == [i \in DOMAIN df |->
                   import_row(df[i], user1[1], user2[1], agent[1], now)]
    IN
    /\ IF agent = None \/ user1 = None \/ user2 = None
       THEN result' = "MpayValueError" /\ asked' = <<>> /\ UNCHANGED store
       ELSE IF q # <<>> /\ ~ask[q[1]]
       THEN result' = "MpayException" /\ asked' = q /\ UNCHANGED store
       ELSE IF \/ user1[1] \notin users \/ user2[1] \notin users
               \/ \E i \in DOMAIN df : fromisoformat(df[i].dt_due) = None
               \/ ~ask[proceed[1]]
               \/ \E i \in DOMAIN txs :
                     ~TransactionConstraints(txs[i], users)
       THEN /\ result' = "Exception"
            /\ asked' = q
            /\ agents' = agents \cup {agent[1]}
            /\ UNCHANGED <<users, balance, tags, transactions, orders>>
       ELSE /\ transactions' = transactions \o txs
            /\ balance' = InsertAll(balance, txs)
            /\ agents' = agents \cup {agent[1]}
            /\ result' = "ok"
            /\ asked' = q \o proceed
            /\ UNCHANGED <<users, tags, orders>>
    /\ UNCHANGED <<now, currencies, revision, peer_ex, peer_pay, ex>>

\* Mpay.import_df: every row in one unit of work.
import_df(df, user1_name, user2_name, agent_name, ask) ==
    LET agent == sanitize_agent_name(agent_name)
        user1 == sanitize_user_name(user1_name)
        user2 == sanitize_user_name(user2_name)
        q == IF agent # None /\ agent[1] \notin agents
             THEN <<Question("agent", agent)>> ELSE <<>>
        proceed == <<Question("proceed", <<>>)>>
        txs == [i \in DOMAIN df |->
                   import_row(df[i], user1[1], user2[1], agent[1], now)]
    IN
    /\ IF agent = None \/ user1 = None \/ user2 = None
       THEN result' = "MpayValueError" /\ asked' = <<>> /\ UNCHANGED store
       ELSE IF q # <<>> /\ ~ask[q[1]]
       THEN result' = "MpayException" /\ asked' = q /\ UNCHANGED store
       ELSE IF user1[1] \notin users \/ user2[1] \notin users
       THEN result' = "MpayException" /\ asked' = q /\ UNCHANGED store
       ELSE IF \E i \in DOMAIN df : fromisoformat(df[i].dt_due) = None
       THEN result' = "ValueError" /\ asked' = q /\ UNCHANGED store
       ELSE IF ~ask[proceed[1]]
       THEN result' = "Exception" /\ asked' = q \o proceed
            /\ UNCHANGED store
       ELSE IF \E i \in DOMAIN txs : ~TransactionConstraints(txs[i], users)
       THEN result' = "IntegrityError" /\ asked' = q \o proceed
            /\ UNCHANGED store
       ELSE /\ transactions' = transactions \o txs
            /\ balance' = InsertAll(balance, txs)
            /\ agents' = agents \cup {agent[1]}
            /\ result' = "ok"
            /\ asked' = q \o proceed
            /\ UNCHANGED <<users, tags, orders>>
    /\ UNCHANGED <<now, currencies, revision, peer_ex, peer_pay, ex>>

\* -------------------------------------------------------- recurrence rule

\* A dateutil rrule: occurrences dtstart + k * interval for k = 0, 1, ...,
\* and for k < count[1] when count is not None.
rrule(dtstart, interval, count) ==
    [dtstart |-> dtstart, interval |-> interval, count |-> count]

\* str(rrule) and dateutil.rrule.rrulestr: the text form and its parser.
rrule_to_str(r) == <<"DTSTART", r.dtstart, "INTERVAL", r.interval, "COUNT", r.count>>
rrulestr(s) == rrule(s[2], s[4], s[6])

\* rrule[0]: the first occurrence.
rrule_first(r) == r.dtstart

\* The k-th occurrence, and whether the rule has one.
occurrence(r, k) == r.dtstart + k * r.interval
has_occurrence_one_more(r, k) ==
    k >= 0 /\ (r.count = None \/ k <= r.count[1])
has_occurrence(r, k) == k >= 0 /\ (r.count = None \/ k < r.count[1])

\* rrule.after(dt): the first occurrence strictly after dt, or None.
after(r, dt) ==
    LET k == IF dt < r.dtstart THEN 0
             ELSE ((dt - r.dtstart) \div r.interval) + 1
    IN IF has_occurrence(r, k) THEN Some(occurrence(r, k)) ELSE None

\* ------------------------------------------------------- standing orders

\* The UNIQUE and CHECK constraints of table standing_orders.
StandingOrderConstraints_any_recipient(o, os, us) ==
    /\ o.user_from \in us
    /\ o.user_to \in us
    /\ o.amount >= 0
    /\ \A i \in DOMAIN os :
          ~(os[i].name = o.name /\ os[i].user_from = o.user_from)

StandingOrderConstraints_unique_name(o, os, us) ==
    /\ o.user_from \in us
    /\ o.user_to \in us
    /\ o.user_from # o.user_to
    /\ o.amount >= 0
    /\ \A i \in DOMAIN os : os[i].name # o.name

StandingOrderConstraints(o, os, us) ==
    /\ o.user_from \in us
    /\ o.user_to \in us
    /\ o.user_from # o.user_to
    /\ o.amount >= 0
    /\ \A i \in DOMAIN os :
          ~(os[i].name = o.name /\ os[i].user_from = o.user_from)

\* create_order as an upsert: a row of the same name and sender is replaced.
create_order_replace(me, name, recipient_name, amount, r) ==
    /\ me \in users /\ recipient_name \in users /\ me # recipient_name
    /\ name # "" /\ amount > 0
    /\ LET o == [name |-> name, rrule_str |-> rrule_to_str(r),
                 user_from |-> me, user_to |-> recipient_name,
                 amount |-> amount, dt_next_utc |-> Some(rrule_first(r))]
           same == {i \in DOMAIN orders :
                      orders[i].name = name /\ orders[i].user_from = me}
       IN orders' = IF same = {} THEN Append(orders, o)
                    ELSE [i \in DOMAIN orders |->
                             IF i \in same THEN o ELSE orders[i]]
    /\ result' = "ok"
    /\ asked' = <<>>
    /\ UNCHANGED <<users, balance, agents, tags, transactions, now,
                   currencies, revision, peer_ex, peer_pay, ex>>

\* The check `amount <= 0' of create_order (lines 450-451).
amount_not_positive_strict(amount) == amount < 0

amount_not_positive(amount) == amount <= 0

create_order(me, name, recipient_name, amount, r) ==
    LET order_name == sanitize_order_name(name)
        recipient == sanitize_user_name(recipient_name)
        o == [name |-> order_name[1], rrule_str |-> rrule_to_str(r),
              user_from |-> me, user_to |-> recipient[1], amount |-> amount,
              dt_next_utc |-> Some(rrule_first(r))]
    IN
    /\ IF order_name = None \/ recipient = None
          \/ amount_not_positive(amount)
       THEN result' = "MpayValueError" /\ UNCHANGED store
       ELSE IF me \notin users \/ recipient[1] \notin users
       THEN result' = "MpayException" /\ UNCHANGED store
       ELSE IF ~StandingOrderConstraints(o, orders, users)
       THEN result' = "IntegrityError" /\ UNCHANGED store
       ELSE /\ orders' = Append(orders, o)
            /\ result' = "ok"
            /\ UNCHANGED <<users, balance, agents, tags, transactions>>
    /\ asked' = <<>>
    /\ UNCHANGED <<now, currencies, revision, peer_ex, peer_pay, ex>>

\* The ids of the orders named order_name whose user_from is `me'.
find_order(me, order_name) ==
    {i \in DOMAIN orders :
        orders[i].name = order_name /\ orders[i].user_from = me}

\* disable_order asking before it looks at the order.
disable_order_asks_first(me, order_name, ask) ==
    LET name == sanitize_order_name(order_name)
        q == <<Question("irreversible", <<>>)>>
    IN
    /\ IF name = None
       THEN result' = "MpayValueError" /\ asked' = <<>> /\ UNCHANGED store
       ELSE IF me \notin users \/ find_order(me, name[1]) = {}
       THEN result' = "MpayException" /\ asked' = <<>> /\ UNCHANGED store
       ELSE LET i == CHOOSE j \in find_order(me, name[1]) : TRUE
            IN IF ~ask[q[1]]
               THEN result' = "False" /\ asked' = q /\ UNCHANGED store
               ELSE /\ orders' = [orders EXCEPT ![i].dt_next_utc = None]
                    /\ result' = "True"
                    /\ asked' = q
                    /\ UNCHANGED <<users, balance, agents, tags,
                                   transactions>>
    /\ UNCHANGED <<now, currencies, revision, peer_ex, peer_pay, ex>>

\* disable_order answering True without writing the order.
disable_order_keeps_cursor(me, order_name, ask) ==
    LET name == sanitize_order_name(order_name)
        q == <<Question("irreversible", <<>>)>>
    IN
    /\ IF name = None
       THEN result' = "MpayValueError" /\ asked' = <<>> /\ UNCHANGED store
       ELSE IF me \notin users \/ find_order(me, name[1]) = {}
       THEN result' = "MpayException" /\ asked' = <<>> /\ UNCHANGED store
       ELSE LET i == CHOOSE j \in find_order(me, name[1]) : TRUE
            IN IF orders[i].dt_next_utc = None
               THEN result' = "True" /\ asked' = <<>> /\ UNCHANGED store
               ELSE IF ~ask[q[1]]
               THEN result' = "False" /\ asked' = q /\ UNCHANGED store
               ELSE result' = "True" /\ asked' = q /\ UNCHANGED store
    /\ UNCHANGED <<now, currencies, revision, peer_ex, peer_pay, ex>>

disable_order(me, order_name, ask) ==
    LET name == sanitize_order_name(order_name)
        q == <<Question("irreversible", <<>>)>>
    IN
    /\ IF name = None
       THEN result' = "MpayValueError" /\ asked' = <<>> /\ UNCHANGED store
       ELSE IF me \notin users \/ find_order(me, name[1]) = {}
       THEN result' = "MpayException" /\ asked' = <<>> /\ UNCHANGED store
       ELSE LET i == CHOOSE j \in find_order(me, name[1]) : TRUE
            IN IF orders[i].dt_next_utc = None
               THEN result' = "True" /\ asked' = <<>> /\ UNCHANGED store
               ELSE IF ~ask[q[1]]
               THEN result' = "False" /\ asked' = q /\ UNCHANGED store
               ELSE /\ orders' = [orders EXCEPT ![i].dt_next_utc = None]
                    /\ result' = "True"
                    /\ asked' = q
                    /\ UNCHANGED <<users, balance, agents, tags,
                                   transactions>>
    /\ UNCHANGED <<now, currencies, revision, peer_ex, peer_pay, ex>>

\* -------------------------------------------------------- execute_orders

ExIdle ==
    [pc |-> "idle", utc_now |-> 0, queue |-> <<>>, order |-> 0,
     order_utc_now |-> 0, dt_next_utc |-> None, pending |-> <<>>]

\* ex.utc_now is the utc_now of execute_orders, ex.order_utc_now the one
\* _execute_order reads for the order it executes.

\* The filter of the query in execute_orders: dt_next_utc < utc_now; NULL
\* compares as unknown and is not selected.
order_is_selected_le(o, utc_now) ==
    o.dt_next_utc # None /\ o.dt_next_utc[1] <= utc_now

order_is_selected(o, utc_now) ==
    o.dt_next_utc # None /\ o.dt_next_utc[1] < utc_now

\* The condition of the while loop in _execute_order.
order_is_due_strict(dt_next_utc, utc_now) ==
    dt_next_utc # None /\ dt_next_utc[1] < utc_now

order_is_due(dt_next_utc, utc_now) ==
    dt_next_utc # None /\ dt_next_utc[1] <= utc_now

\* The sequences a query without ORDER BY may return the rows S in.
Orderings(S) ==
    {q \in [1..Cardinality(S) -> S] :
        \A i, j \in 1..Cardinality(S) : i # j => q[i] # q[j]}

\* execute_orders up to the start of its for loop: the query is run.
execute_orders_begin ==
    /\ ex.pc = "idle"
    /\ \E q \in Orderings({i \in DOMAIN orders :
                              order_is_selected(orders[i], now)}) :
          ex' = [ExIdle EXCEPT !.pc = "orders", !.utc_now = now, !.queue = q]
    /\ UNCHANGED <<store, now, currencies, revision, peer_ex, peer_pay, result, asked>>

\* _execute_order up to its while loop, for the next order of the query.
execute_order_enter ==
    /\ ex.pc = "orders"
    /\ ex.queue # <<>>
    /\ LET i == Head(ex.queue)
       IN IF orders[i].dt_next_utc = None
          THEN ex' = [ex EXCEPT !.queue = Tail(@)]
          ELSE ex' = [ex EXCEPT !.pc = "order", !.order = i,
                                !.order_utc_now = now,
                                !.dt_next_utc = orders[i].dt_next_utc,
                                !.pending = <<>>]
    /\ UNCHANGED <<store, now, currencies, revision, peer_ex, peer_pay, result, asked>>

\* One pass of the while loop: the transaction is added to the session and
\* the order's cursor moved, both uncommitted.
execute_order_pay ==
    /\ ex.pc = "order"
    /\ order_is_due(ex.dt_next_utc, ex.order_utc_now)
    /\ LET order == orders[ex.order]
           t == Transaction(order.user_from, order.user_to, order.user_from,
                            order.amount, ex.dt_next_utc[1], 0,
                            Some(ex.order), None, None, None, {})
           new_utc == after(rrulestr(order.rrule_str), ex.dt_next_utc[1])
       IN IF new_utc = None \/ new_utc[1] > ex.dt_next_utc[1]
          THEN /\ ex' = [ex EXCEPT !.pending = Append(@, t),
                                   !.dt_next_utc = new_utc]
               /\ UNCHANGED <<result, asked>>
          ELSE /\ ex' = ExIdle
               /\ result' = "AssertionError"
               /\ asked' = <<>>
    /\ UNCHANGED <<store, now, currencies, revision, peer_ex, peer_pay>>

\* What the session holds for the order being executed becomes the store's:
\* the rows are inserted (created now) and the order's cursor is written.
commit_order_rows_only(os) == os
commit_order(os) ==
    IF ex.pending = <<>> THEN os
    ELSE [os EXCEPT ![ex.order].dt_next_utc = ex.dt_next_utc]

\* The session.commit() that ends _execute_order.
execute_order_commit ==
    /\ ex.pc = "order"
    /\ ~order_is_due(ex.dt_next_utc, ex.order_utc_now)
    /\ LET txs == [i \in DOMAIN ex.pending |->
                      [ex.pending[i] EXCEPT !.dt_created_utc = now]]
       IN IF \E i \in DOMAIN txs : ~TransactionConstraints(txs[i], users)
          THEN /\ ex' = ExIdle
               /\ result' = "IntegrityError"
               /\ asked' = <<>>
               /\ UNCHANGED store
          ELSE /\ transactions' = transactions \o txs
               /\ balance' = InsertAll(balance, txs)
               /\ orders' = commit_order(orders)
               /\ ex' = [ex EXCEPT !.pc = "orders", !.queue = Tail(@),
                                   !.order = 0, !.order_utc_now = 0,
                                   !.dt_next_utc = None, !.pending = <<>>]
               /\ UNCHANGED <<users, agents, tags, result, asked>>
    /\ UNCHANGED <<now, currencies, revision, peer_ex, peer_pay>>

\* The for loop is over: the last commit, and execute_orders returns.
execute_orders_end ==
    /\ ex.pc = "orders"
    /\ ex.queue = <<>>
    /\ ex' = ExIdle
    /\ result' = "ok"
    /\ asked' = <<>>
    /\ UNCHANGED <<store, now, currencies, revision, peer_ex, peer_pay>>

\* The process is interrupted: the session's uncommitted work is rolled back.
interrupt_keeps_rows ==
    /\ ex.pc # "idle"
    /\ ex' = ExIdle
    /\ result' = "interrupted"
    /\ asked' = <<>>
    /\ transactions' = transactions \o ex.pending
    /\ balance' = InsertAll(balance, ex.pending)
    /\ UNCHANGED <<users, agents, tags, orders, now, currencies, revision, peer_ex, peer_pay>>

interrupt ==
    /\ ex.pc # "idle"
    /\ ex' = ExIdle
    /\ result' = "interrupted"
    /\ asked' = <<>>
    /\ UNCHANGED <<store, now, currencies, revision, peer_ex, peer_pay>>

\* Mpay.check: whether it raises.
check_raises_sum_only == users # {} /\ balance_sum(balance, users) # 0

check_raises ==
    \/ users # {} /\ balance_sum(balance, users) # 0
    \/ \E u \in users :
          incoming_sum(transactions, u) - outgoing_sum(transactions, u)
              # balance[u]

check ==
    /\ result' = IF check_raises THEN "AssertionError" ELSE "ok"
    /\ asked' = <<>>
    /\ UNCHANGED <<store, now, currencies, revision, peer_ex, peer_pay, ex>>

\* ----------------------------------------------------- a second client

\* peer_pay is the unit of work of a pay call of another process on the same
\* store: loaded holds the User rows its queries returned, pending the
\* db.Transaction it added to its session.
PayIdle == [pc |-> "idle", loaded |-> <<>>, pending |-> <<>>]

\* pay of the second client up to its session.commit(), for a call that
\* names no due instant, currency, agent or tag: the two users are queried,
\* which loads their rows with the balances of that moment, and the
\* db.Transaction is added to the session. Nothing is written yet.
peer_pay_begin(me, recipient_name, converted_amount) ==
    LET recipient == sanitize_user_name(recipient_name)
        t == pay_transaction(me, recipient[1], converted_amount, now, None,
                             None, None, {})
    IN
    /\ peer_pay.pc = "idle"
    /\ IF recipient = None
       THEN result' = "MpayValueError" /\ UNCHANGED peer_pay
       ELSE IF me \notin users \/ recipient[1] \notin users
               \/ same_user(me, recipient[1])
       THEN result' = "MpayException" /\ UNCHANGED peer_pay
       ELSE /\ peer_pay' = [pc |-> "added",
                            loaded |-> [u \in {me, recipient[1]} |->
                                           balance[u]],
                            pending |-> <<t>>]
            /\ UNCHANGED result
    /\ asked' = <<>>
    /\ UNCHANGED <<store, now, currencies, revision, peer_ex, ex>>

\* The INSERT writing the balances of the two users from the rows the
\* session had loaded.
peer_pay_flush_loaded(bal, loaded, t) ==
    [bal EXCEPT ![t.user_from] = loaded[t.user_from] - t.converted_amount,
                ![t.user_to] = loaded[t.user_to] + t.converted_amount]

\* What the INSERT of the flush does to the balances: the session writes no
\* column of users, and trigger update_balance_insert adds to the balances
\* the store holds when the statement runs.
peer_pay_flush(bal, loaded, t) == update_balance_insert(bal, t)

\* session.commit() of the second client's pay: the row is inserted with
\* dt_created_utc the instant of the flush, under the constraints of the
\* table, and the unit of work ends.
peer_pay_commit ==
    /\ peer_pay.pc = "added"
    /\ LET t == [Head(peer_pay.pending) EXCEPT !.dt_created_utc = now]
       IN IF ~TransactionConstraints(t, users)
          THEN result' = "IntegrityError" /\ UNCHANGED store
          ELSE /\ transactions' = Append(transactions, t)
               /\ balance' = peer_pay_flush(balance, peer_pay.loaded, t)
               /\ result' = "ok"
               /\ UNCHANGED <<users, agents, tags, orders>>
    /\ peer_pay' = PayIdle
    /\ asked' = <<>>
    /\ UNCHANGED <<now, currencies, revision, peer_ex, ex>>

\* peer_ex is the execute_orders call of another process on the same store,
\* with its own session and locals, while that process waits; ex is the call
\* of the process that runs. The machine passes from one process to the
\* other between any two steps: neither call takes a lock, and a session
\* writes to the store only in its commit.
switch ==
    /\ ex # peer_ex
    /\ ex' = peer_ex
    /\ peer_ex' = ex
    /\ UNCHANGED <<store, now, currencies, revision, peer_pay, result, asked>>

\* ---------------------------------------------------------- specification

Init ==
    /\ users = {}
    /\ balance = [u \in {} |-> 0]
    /\ agents = {}
    /\ tags = <<>>
    /\ transactions = <<>>
    /\ orders = <<>>
    /\ currencies = CURRENCIES
    /\ revision = HEAD
    /\ peer_ex = ExIdle
    /\ peer_pay = PayIdle
    /\ now = 0
    /\ ex = ExIdle
    /\ result = "ok"
    /\ asked = <<>>

\* The inputs the operations are called with.
Rows ==
    {[amount |-> -1, dt_due |-> Some(0)], [amount |-> 5, dt_due |-> Some(0)],
     [amount |-> 5, dt_due |-> Some(now + 1)]}
Dataframes == {<<>>} \cup {<<r>> : r \in Rows}

\* The arguments of pay after the recipient: plain payments of either sign,
\* a payment due in the future, and payments with an original amount, an
\* agent and tags, valid and invalid.
PayArguments ==
    {<<a, Some(0), None, None, None, <<>>, Yes>> : a \in {-2, 3}}
    \cup {<<3, Some(now + 1), None, None, None, <<>>, Yes>>}
    \cup {<<3, None, Some("USD"), Some(-5), Some("agent1"),
            << <<"a", "b">> >>, k>> : k \in {Yes, No}}
    \cup {<<3, None, c, Some(5), None, <<>>, Yes>> : c \in {None, Some("XXX")}}
    \cup {<<3, None, None, None, g, << <<"a">>, <<"">> >>, Yes>> :
             g \in {None, Some("")}}

\* The callbacks import_df is run with.
ImportAnswers ==
    {Yes, No, YesExcept({Question("agent", <<"agent1">>)}),
     YesExcept({Question("proceed", <<>>)})}

\* Every operation of the engine, from the empty store.
Next ==
    \/ Tick(MaxTime)
    \/ Idle /\ \E n \in UserNames \cup InvalidUserNames : create_user(n)
    \/ Idle /\ Len(tags) < MaxTags
            /\ \E n \in TagNames \cup InvalidTagNames,
                  p \in {None, Some(<<"a">>)} : create_tag(n, p)
    \/ Idle /\ \E n \in AgentNames \cup {""} : create_agent(n)
    \/ Idle /\ Len(transactions) < MaxTx
            /\ \E r \in {"test1", "test2", " test2 ", "Uppercase"},
                  in \in PayArguments :
                  pay("test1", r, in[1], in[2], in[3], in[4], in[5], in[6],
                      in[7])
    \/ Idle /\ \E df \in Dataframes, k \in {Yes, No} :
                  /\ Len(transactions) + Len(df) <= MaxTx
                  /\ import_df(df, "test1", "test2", "agent1", k)
    \/ Idle /\ \E n \in OrderNames \cup {""}, r \in {"test1", "test2"},
                  a \in {0, 1}, rr \in {rrule(0, 1, None)} :
                  create_order("test1", n, r, a, rr)
    \/ Idle /\ \E n \in OrderNames, k \in {Yes, No} :
                  disable_order("test1", n, k)
    \/ execute_orders_begin
    \/ execute_order_enter
    \/ execute_order_pay
    \/ execute_order_commit
    \/ execute_orders_end
    \/ interrupt
    \/ Idle /\ check

Spec == Init /\ [][Next]_vars

\* --------------------------------------------------------- pay in depth

\* Three users exist and the current user pays, several times.
InitPay ==
    /\ users = UserNames
    /\ balance = [u \in UserNames |-> 0]
    /\ agents = {}
    /\ tags = <<>>
    /\ transactions = <<>>
    /\ orders = <<>>
    /\ currencies = CURRENCIES
    /\ revision = HEAD
    /\ peer_ex = ExIdle
    /\ peer_pay = PayIdle
    /\ now = 0
    /\ ex = ExIdle
    /\ result = "ok"
    /\ asked = <<>>

PayInputs == (UserNames \cup InvalidUserNames) \X Amounts \X {0, MaxTime}

NextPay ==
    \/ Tick(MaxTime)
    \/ Len(transactions) < MaxPays
         /\ \E in \in PayInputs :
               pay("test1", in[1], in[2], Some(in[3]), None, None, None,
                   <<>>, Yes)
    \/ check

SpecPay == InitPay /\ [][NextPay]_vars

\* ------------------------------------------------- the scheduler in depth

\* Two users exist; standing orders are created, executed over a longer
\* stretch of time, interrupted and disabled.
InitSched ==
    /\ users = {"test1", "test2"}
    /\ balance = [u \in {"test1", "test2"} |-> 0]
    /\ agents = {}
    /\ tags = <<>>
    /\ transactions = <<>>
    /\ orders = <<>>
    /\ currencies = CURRENCIES
    /\ revision = HEAD
    /\ peer_ex = ExIdle
    /\ peer_pay = PayIdle
    /\ now = 0
    /\ ex = ExIdle
    /\ result = "ok"
    /\ asked = <<>>

SchedRrules ==
    {rrule(d, i, c) : d \in {0, 1}, i \in Intervals, c \in {None, Some(3)}}

NextSched ==
    \/ Tick(Horizon)
    \/ Idle /\ Len(transactions) < MaxTx
            /\ pay("test1", "test2", 3, Some(0), None, None, None, <<>>, Yes)
    \/ Idle /\ \E n \in OrderNames, rr \in SchedRrules :
                  create_order("test1", n, "test2", 1, rr)
    \/ Idle /\ \E n \in OrderNames, k \in {Yes, No} :
                  disable_order("test1", n, k)
    \/ execute_orders_begin
    \/ execute_order_enter
    \/ execute_order_pay
    \/ execute_order_commit
    \/ execute_orders_end
    \/ interrupt

SpecSched == InitSched /\ [][NextSched]_vars

\* --------------------------------------------------- two standing orders

\* The current user has two standing orders; execute_orders commits once
\* per order and may be interrupted before, between and after the commits.
TwoRrules == {rrule(0, 1, None), rrule(0, 1, Some(2)), rrule(1, 1, None)}

NextTwo ==
    \/ Tick(ShortHorizon)
    \/ Idle /\ \E n \in {"order1", "order2"}, rr \in TwoRrules :
                  create_order("test1", n, "test2", 1, rr)
    \/ Idle /\ \E k \in {Yes, No} : disable_order("test1", "order1", k)
    \/ execute_orders_begin
    \/ execute_order_enter
    \/ execute_order_pay
    \/ execute_order_commit
    \/ execute_orders_end
    \/ interrupt

SpecTwo == InitSched /\ [][NextTwo]_vars

\* ------------------------------------------------ writes past the engine

\* What a client of the store does with a session of its own, as test_check
\* does: the constraints and the triggers of the store apply, the checks of
\* the engine do not.

\* session.add(db.User(name=name, balance=bal)); session.commit()
session_add_User(name, bal) ==
    /\ IF name \in users
       THEN result' = "IntegrityError" /\ UNCHANGED store
       ELSE /\ users' = users \cup {name}
            /\ balance' = [u \in users \cup {name} |->
                              IF u = name THEN bal ELSE balance[u]]
            /\ result' = "ok"
            /\ UNCHANGED <<agents, tags, transactions, orders>>
    /\ asked' = <<>>
    /\ UNCHANGED <<now, currencies, revision, peer_ex, peer_pay, ex>>

\* u.balance = bal; session.add(u); session.commit()
session_set_balance(u, bal) ==
    /\ u \in users
    /\ balance' = [balance EXCEPT ![u] = bal]
    /\ result' = "ok"
    /\ asked' = <<>>
    /\ UNCHANGED <<users, agents, tags, transactions, orders, now,
                   currencies, revision, peer_ex, peer_pay, ex>>

\* session.add(db.Transaction(...)); session.commit(): the insert trigger
\* fires.
session_add_Transaction(t) ==
    /\ IF ~TransactionConstraints(t, users)
       THEN result' = "IntegrityError" /\ UNCHANGED store
       ELSE /\ transactions' = Append(transactions, t)
            /\ balance' = update_balance_insert(balance, t)
            /\ result' = "ok"
            /\ UNCHANGED <<users, agents, tags, orders>>
    /\ asked' = <<>>
    /\ UNCHANGED <<now, currencies, revision, peer_ex, peer_pay, ex>>

\* UPDATE transactions SET user_from_id, user_to_id, converted_amount WHERE
\* id = i: the constraints apply to the new row, then the update trigger
\* fires.
session_update_Transaction(i, from, to, amount) ==
    /\ i \in DOMAIN transactions
    /\ transactions[i] # DeletedTransaction
    /\ LET old == transactions[i]
           new == [old EXCEPT !.user_from = from, !.user_to = to,
                              !.converted_amount = amount]
       IN IF ~TransactionConstraints(new, users)
          THEN result' = "IntegrityError" /\ UNCHANGED store
          ELSE /\ transactions' = [transactions EXCEPT ![i] = new]
               /\ balance' = update_balance_update(balance, old, new)
               /\ result' = "ok"
               /\ UNCHANGED <<users, agents, tags, orders>>
    /\ asked' = <<>>
    /\ UNCHANGED <<now, currencies, revision, peer_ex, peer_pay, ex>>

\* DELETE FROM transactions WHERE id = i: the delete trigger fires, and the
\* row's rows of transactions_tags go with it.
session_delete_Transaction(i) ==
    /\ i \in DOMAIN transactions
    /\ transactions[i] # DeletedTransaction
    /\ transactions' = [transactions EXCEPT ![i] = DeletedTransaction]
    /\ balance' = update_balance_delete(balance, transactions[i])
    /\ result' = "ok"
    /\ asked' = <<>>
    /\ UNCHANGED <<users, agents, tags, orders, now, currencies, revision, peer_ex, peer_pay, ex>>

\* session.add(db.StandingOrder(...)); session.commit()
session_add_StandingOrder(o) ==
    /\ IF ~StandingOrderConstraints(o, orders, users)
       THEN result' = "IntegrityError" /\ UNCHANGED store
       ELSE /\ orders' = Append(orders, o)
            /\ result' = "ok"
            /\ UNCHANGED <<users, balance, agents, tags, transactions>>
    /\ asked' = <<>>
    /\ UNCHANGED <<now, currencies, revision, peer_ex, peer_pay, ex>>

\* What is left at the id of a deleted row of tags: ids are not filled in
\* again, and no name that is looked up matches it.
DeletedTag == Tag("(deleted)", None)

\* session.delete(tag) keeping the tag's rows of transactions_tags.
session_delete_Tag_keeps_associations(i) ==
    /\ i \in DOMAIN tags
    /\ tags[i] # DeletedTag
    /\ tags' = [j \in DOMAIN tags |->
                   IF j = i THEN DeletedTag
                   ELSE IF tags[j].parent = Some(i)
                   THEN [tags[j] EXCEPT !.parent = None]
                   ELSE tags[j]]
    /\ result' = "ok"
    /\ asked' = <<>>
    /\ UNCHANGED <<users, balance, agents, transactions, orders, now,
                   currencies, revision, peer_ex, peer_pay, ex>>

\* session.delete(tag); session.commit(), as test_delete_tag does: the row
\* goes, its rows of transactions_tags go with it (ON DELETE CASCADE, and
\* the relationship's secondary table), and the session writes NULL to the
\* parent_id of its children.
session_delete_Tag(i) ==
    /\ i \in DOMAIN tags
    /\ tags[i] # DeletedTag
    /\ tags' = [j \in DOMAIN tags |->
                   IF j = i THEN DeletedTag
                   ELSE IF tags[j].parent = Some(i)
                   THEN [tags[j] EXCEPT !.parent = None]
                   ELSE tags[j]]
    /\ transactions' = [t \in DOMAIN transactions |->
                           [transactions[t] EXCEPT !.tags = @ \ {i}]]
    /\ result' = "ok"
    /\ asked' = <<>>
    /\ UNCHANGED <<users, balance, agents, orders, now, currencies, revision, peer_ex, peer_pay, ex>>

\* The balances test_check writes, in thousandths scaled down.
RawBalances == {-3, 0, 3}

\* Users are written with any balance, balances are overwritten,
\* transactions are inserted, and the store is checked.
NextCheck ==
    \/ \E n \in {"test1", "test2"}, b \in RawBalances :
          session_add_User(n, b)
    \/ \E u \in users, b \in RawBalances : session_set_balance(u, b)
    \/ Len(transactions) < MaxTx
         /\ \E f \in {"test1", "test2"}, t \in {"test1", "test2"} :
               session_add_Transaction(
                   Transaction(f, t, f, 3, now, now, None, None, None, None,
                               {}))
    \/ check

SpecCheck == Init /\ [][NextCheck]_vars

\* ------------------------------------------- pay with agents and tags

\* The lists of tags pay is called with, the callbacks that answer its
\* questions, and its arguments after the recipient: due now or later, an
\* original amount with and without a known currency, with and without an
\* agent.
TagLists ==
    {<<>>, << <<"a", "b">> >>, << <<"a">>, <<"c">> >>, << <<"a">>, <<"">> >>}

PayCallbacks ==
    {Yes, No, YesExcept({Question("tag", <<"c">>)}),
     YesExcept({Question("agent", <<"agent1">>)})}

Originals ==
    {<<None, None>>, <<Some("USD"), Some(5)>>, <<None, Some(5)>>,
     <<Some("USD"), None>>, <<Some("XXX"), Some(5)>>}

PayTagArguments ==
    {<<3, d, None, None, g, t, k>> :
        d \in {Some(0), Some(now + 1)}, g \in {None, Some("agent1")},
        t \in TagLists, k \in PayCallbacks}
    \cup {<<3, Some(0), c[1], c[2], None, t, Yes>> :
             c \in Originals, t \in {<<>>, << <<"a">>, <<"c">> >>}}

\* Two users exist; the current user pays a known user and an unknown one.
NextPayTags ==
    \/ Tick(MaxTime)
    \/ Len(transactions) < MaxTagPays
         /\ \E r \in {"test2", "test3"}, in \in PayTagArguments :
               pay("test1", r, in[1], in[2], in[3], in[4], in[5], in[6],
                   in[7])

SpecPayTags == InitSched /\ [][NextPayTags]_vars

\* ------------------------------------------ standing orders of two users

\* The arguments of create_order: names with and without blanks around them
\* and the empty name, rules with and without an end.
OrderNameInputs == {"order1", " order1 ", ""}
OrderRrules == {rrule(0, 1, None), rrule(0, 1, Some(1))}

\* Two users exist; each of them is the current user of some calls. They
\* create and disable orders, and a payment is made.
NextOrders ==
    \/ \E me \in {"test1", "test2"}, n \in OrderNameInputs,
          r \in UserNames, a \in OrderAmounts, rr \in OrderRrules :
          create_order(me, n, r, a, rr)
    \/ \E me \in {"test1", "test2"}, k \in {Yes, No} :
          disable_order(me, "order1", k)
    \/ Len(transactions) < MaxTx
         /\ \E a \in {-2, 0} :
               pay("test1", "test2", a, None, None, None, None, <<>>, Yes)

SpecOrders == InitSched /\ [][NextOrders]_vars

\* --------------------------------------------- pay in a foreign currency

\* Two users exist; the current user pays with and without an original
\* amount and an original currency, tagged and untagged.
NextOriginals ==
    \/ Tick(MaxTime)
    \/ Len(transactions) < MaxTagPays
         /\ \E r \in {"test2", "test3"}, c \in Originals,
               t \in {<<>>, << <<"a">>, <<"c">> >>} :
               pay("test1", r, 3, Some(0), c[1], c[2], None, t, Yes)

SpecOriginals == InitSched /\ [][NextOriginals]_vars

\* ------------------------------------------------------ import in depth

\* The rows of the dataframes: amounts of either sign, due now, due later,
\* and a dt_due that is no ISO text.
ImportRows ==
    {[amount |-> -1, dt_due |-> Some(0)], [amount |-> 2, dt_due |-> Some(0)],
     [amount |-> 2, dt_due |-> Some(now + 1)], [amount |-> 2, dt_due |-> None]}

ImportFrames ==
    {<<>>} \cup {<<r>> : r \in ImportRows}
        \cup {<<r1, r2>> : r1 \in ImportRows, r2 \in ImportRows}

\* Two users exist; dataframes are imported between them and users that do
\* not exist.
NextImport ==
    \/ Tick(MaxTime)
    \/ \E df \in ImportFrames, u1 \in {"test1", "test3"},
          u2 \in {"test2", "test3"}, k \in ImportAnswers :
          /\ Len(transactions) + Len(df) <= MaxImported
          /\ import_df(df, u1, u2, "agent1", k)

SpecImport == InitSched /\ [][NextImport]_vars

\* ------------------------------------------- import in both directions

\* The dataframes: rows of either sign and of amount zero, all due now.
NetRows == {[amount |-> a, dt_due |-> Some(0)] : a \in Amounts}
NetFrames ==
    {<<>>} \cup {<<r>> : r \in NetRows}
        \cup {<<r1, r2>> : r1 \in NetRows, r2 \in NetRows}

\* Three users exist; dataframes are imported between two of them, in
\* either role, and the store is checked.
NextImportNet ==
    \/ \E df \in NetFrames, u1 \in {"test1", "test2"},
          u2 \in {"test1", "test2"}, k \in {Yes, No} :
          /\ Len(transactions) + Len(df) <= MaxNetRows
          /\ import_df(df, u1, u2, "agent1", k)
    \/ check

SpecImportNet == InitPay /\ [][NextImportNet]_vars

\* ------------------------------------------------------ the tree of tags

\* The names and parents create_tag is called with, and the lists of tags
\* pay and add_tags are called with: test_hierarchical_tag's root tag2 and
\* nested a/b/tag2.
TagNameInputs == {"a", "b", "tag2", ""}
TagParentInputs == {None, Some(<<"a">>), Some(<<"a", "b">>), Some(<<"c">>)}
TagNameLists ==
    {<< <<"tag2">> >>, << <<"a", "b", "tag2">> >>, << <<"a">>, <<"tag2">> >>}

\* Two users exist; tags are created by name and parent, and by paying and
\* tagging with hierarchical names.
NextTagNames ==
    \/ Len(tags) < MaxTagRows
         /\ \E n \in TagNameInputs, p \in TagParentInputs : create_tag(n, p)
    \/ Len(transactions) < MaxTaggedTx
         /\ \E tl \in TagNameLists, k \in {Yes, No} :
               /\ pay("test1", "test2", 3, Some(0), None, None, None, tl, k)
               /\ Len(tags') <= MaxTagRows
    \/ \E i \in DOMAIN transactions, tl \in TagNameLists, k \in {Yes, No} :
          /\ add_tags({i}, tl, k)
          /\ Len(tags') <= MaxTagRows

SpecTagNames == InitSched /\ [][NextTagNames]_vars

\* ------------------------------------------- tagging stored transactions

\* The lists of tags pay, add_tags and remove_tags are called with, as in
\* test_add_tag: a root tag, a nested tag, and a tag that add_tags creates;
\* and the lists of transaction ids.
PayTagLists == {<< <<"a", "b">> >>, << <<"c">>, <<"a", "b">> >>}
AddTagLists == {<< <<"tag2">> >>, << <<"a", "b">>, <<"tag2">> >>}
RemoveTagLists == {<< <<"a", "b">> >>, << <<"c">>, <<"tag2">> >>}
TransactionIdLists == {{1}, {2}, {1, 2}}

\* Two users exist; payments are made with tags, and tags are added to
\* stored transactions and removed from them.
NextTagSets ==
    \/ Len(transactions) < MaxSetTx
         /\ \E tl \in PayTagLists :
               pay("test1", "test2", 3, Some(0), None, None, None, tl, Yes)
    \/ \E ids \in TransactionIdLists, tl \in AddTagLists, k \in {Yes, No} :
          add_tags(ids, tl, k)
    \/ \E ids \in TransactionIdLists, tl \in RemoveTagLists :
          remove_tags(ids, tl)

SpecTagSets == InitSched /\ [][NextTagSets]_vars

\* ------------------------------------------------------- deleting tags

\* Two users exist; payments are made with a root tag and a nested tag,
\* and tags are deleted, as in test_delete_tag.
DeleteTagLists == {<< <<"c">> >>, << <<"a", "b">> >>, << <<"c">>, <<"a", "b">> >>}

NextTagDelete ==
    \/ Len(transactions) < MaxDeleteTx
         /\ \E a \in {-2, 3}, tl \in DeleteTagLists :
               /\ pay("test1", "test2", a, Some(0), None, None, None, tl,
                      Yes)
               /\ Len(tags') <= MaxDeleteTags
    \/ \E i \in DOMAIN tags : session_delete_Tag(i)
    \/ check

SpecTagDelete == InitSched /\ [][NextTagDelete]_vars

\* -------------------------------------------------------------- users

\* The names create_user is called with, as in test_user: names in use and
\* not in use, with blanks around them, and names the pattern rejects.
UserNameInputs ==
    {"test1", " test1 ", "test2", "test3", "Uppercase", "user with space", ""}

\* Users are created from the empty store and pay each other.
NextUsers ==
    \/ \E n \in UserNameInputs : create_user(n)
    \/ Len(transactions) < MaxUserTx
         /\ \E me \in {"test1", "test2"}, r \in {"test2", "test3"},
               a \in {-2, 3} :
               pay(me, r, a, Some(0), None, None, None, <<>>, Yes)
    \/ check

SpecUsers == Init /\ [][NextUsers]_vars

\* ------------------------------------------------- setting the store up

\* A store the migrations have just created: every table is empty.
InitSetup ==
    /\ users = {}
    /\ balance = [u \in {} |-> 0]
    /\ agents = {}
    /\ tags = <<>>
    /\ transactions = <<>>
    /\ orders = <<>>
    /\ currencies = <<>>
    /\ revision = HEAD
    /\ peer_ex = ExIdle
    /\ peer_pay = PayIdle
    /\ now = 0
    /\ ex = ExIdle
    /\ result = "ok"
    /\ asked = <<>>

\* What pay is given as the original currency and amount.
SetupOriginals ==
    {<<None, None>>, <<Some("USD"), Some(5)>>, <<Some("XXX"), Some(5)>>}

\* The store is set up, again and again, while users are created and pay.
NextSetup ==
    \/ setup_database
    \/ \E n \in {"test1", "test2"} : create_user(n)
    \/ Len(transactions) < MaxSetupTx
         /\ \E me \in {"test1", "test2"}, r \in {"test1", "test2"},
               a \in {-2, 3}, c \in SetupOriginals :
               pay(me, r, a, None, c[1], c[2], None, <<>>, Yes)

SpecSetup == InitSetup /\ [][NextSetup]_vars

\* ------------------------------------------- rewriting stored transactions

\* The amounts written to a row; the negative one breaks a CHECK constraint.
RowAmounts == {-1, 0, 3}

\* Three users exist. test1 pays test2 in rows that are inserted, updated in
\* their users and their amount, and deleted; the balance of test1 is
\* overwritten; the store is checked.
NextRows ==
    \/ Len(transactions) < MaxRowTx
         /\ session_add_Transaction(
                Transaction("test1", "test2", "test1", 3, now, now, None,
                            None, None, None, {}))
    \/ \E i \in DOMAIN transactions, f \in UserNames,
          t \in {"test2", "test3"}, a \in RowAmounts :
          session_update_Transaction(i, f, t, a)
    \/ \E i \in DOMAIN transactions : session_delete_Transaction(i)
    \/ session_set_balance("test1", 3)
    \/ check

SpecRows == InitPay /\ [][NextRows]_vars

\* ------------------------------------------------ what the store accepts

\* The users rows are written for: two that exist and one that does not.
StoredUsers == {"test1", "test2", "nobody"}

\* Two users exist. Transactions and standing orders are written by the
\* engine and past it, with users, amounts and due instants the constraints
\* refuse among them, and the orders are executed.
NextStored ==
    \/ Tick(MaxTime)
    \/ Idle /\ Len(transactions) < MaxStoredTx
            /\ \E r \in {"test1", "test2"}, d \in {None, Some(1)} :
                  pay("test1", r, -2, d, None, None, None, <<>>, Yes)
    \/ Idle /\ Len(transactions) < MaxStoredTx
            /\ \E f \in StoredUsers, a \in {-1, 3}, d \in {0, 1} :
                  session_add_Transaction(
                      Transaction(f, "test2", f, a, d, now, None, None,
                                  None, None, {}))
    \/ Idle /\ \E i \in DOMAIN transactions, f \in StoredUsers,
                  a \in {-1, 3} :
                  session_update_Transaction(i, f, "test2", a)
    \/ Idle /\ \E f \in StoredUsers, a \in {-1, 0} :
                  session_add_StandingOrder(
                      [name |-> "order1",
                       rrule_str |-> rrule_to_str(rrule(0, 1, None)),
                       user_from |-> f, user_to |-> "test2", amount |-> a,
                       dt_next_utc |-> Some(0)])
    \/ Idle /\ \E r \in {"test1", "test2"}, a \in {0, 1} :
                  create_order("test1", "order1", r, a, rrule(0, 1, None))
    \/ execute_orders_begin
    \/ execute_order_enter
    \/ execute_order_pay
    \/ execute_order_commit
    \/ execute_orders_end

SpecStored == InitSched /\ [][NextStored]_vars

\* ------------------------------------------------- hierarchical names

\* The lists of tags pay is called with: a/b, c, and a/b typed as "a /b".
PathLists == {<< <<"a", "b">> >>, << <<"c">> >>, << <<"a ", "b">> >>}

\* Two users exist; test1 pays test2 with tags that are created as needed.
NextTagPaths ==
    Len(transactions) < MaxPathTx
      /\ \E a \in {-2, 3}, tl \in PathLists, k \in {Yes, No} :
            /\ pay("test1", "test2", a, Some(0), None, None, None, tl, k)
            /\ Len(tags') <= MaxPathTags

SpecTagPaths == InitSched /\ [][NextTagPaths]_vars

\* ------------------------------------------------ what leaves money alone

\* Two users exist and pay each other; users, tags, agents and orders are
\* created with names that are fine, in use and malformed, the order is
\* disabled, the transaction is tagged and untagged, the store is checked.
NextFrame ==
    \/ Len(transactions) < MaxFrameTx
         /\ \E a \in {-2, 3}, tl \in {<<>>, << <<"a">> >>} :
               pay("test1", "test2", a, Some(0), None, None, None, tl, Yes)
    \/ \E n \in {"test3", "test1", "Uppercase"} : create_user(n)
    \/ Len(tags) < MaxFrameTags
         /\ \E n \in {"a", ""}, p \in {None, Some(<<"a">>), Some(<<"c">>)} :
               create_tag(n, p)
    \/ \E n \in {"agent1", ""} : create_agent(n)
    \/ \E r \in {"test1", "test2"}, a \in {0, 1} :
          create_order("test1", "order1", r, a, rrule(0, 1, None))
    \/ \E n \in {"order1", ""}, k \in {Yes, No} :
          disable_order("test1", n, k)
    \/ \E i \in DOMAIN transactions, tl \in {<< <<"a">> >>, << <<"c">> >>},
          k \in {Yes, No} :
          /\ add_tags({i}, tl, k)
          /\ Len(tags') <= MaxFrameTags
    \/ \E i \in DOMAIN transactions, tl \in {<< <<"a">> >>, << <<"c">> >>} :
          remove_tags({i}, tl)
    \/ check

SpecFrame == InitSched /\ [][NextFrame]_vars

\* ------------------------------------------------------- large amounts

\* 500000.000, in thousandths, and the largest value of Numeric(9, 3).
HalfMillion == 500000000
MaxMoney == 999999999

\* Three users exist. test1 pays test2 half a million, a dataframe of one
\* such row is imported, and a standing order of that amount is created and
\* executed.
NextMoney ==
    \/ Tick(MaxTime)
    \/ Idle /\ Len(transactions) < MaxMoneyTx
            /\ \E a \in {HalfMillion, -1} :
                  pay("test1", "test2", a, Some(0), None, None, None, <<>>,
                      Yes)
    \/ Idle /\ Len(transactions) < MaxMoneyTx
            /\ import_df(<<[amount |-> -HalfMillion, dt_due |-> Some(0)]>>,
                         "test1", "test2", "agent1", Yes)
    \/ Idle /\ create_order("test1", "order1", "test2", HalfMillion,
                            rrule(0, 1, None))
    \/ execute_orders_begin
    \/ execute_order_enter
    \/ execute_order_pay
    \/ execute_order_commit
    \/ execute_orders_end

SpecMoney == InitPay /\ [][NextMoney]_vars

\* ------------------------------------------- a store of an earlier revision

\* A store at the revision before the head, with three users.
InitMigration ==
    /\ users = UserNames
    /\ balance = [u \in UserNames |-> 0]
    /\ agents = {}
    /\ tags = <<>>
    /\ transactions = <<>>
    /\ orders = <<>>
    /\ currencies = CURRENCIES
    /\ revision = DOWN_REVISION
    /\ peer_ex = ExIdle
    /\ peer_pay = PayIdle
    /\ now = 0
    /\ ex = ExIdle
    /\ result = "ok"
    /\ asked = <<>>

\* INSERT INTO transactions at the earlier revision, as a client of that
\* revision writes a row: there is no column user_created_id, the amounts
\* have the signs they were given, and the insert trigger fires.
legacy_insert_Transaction(from, to, amount, original_amount) ==
    /\ revision = DOWN_REVISION
    /\ LET t == Transaction(from, to, NoUser, amount, now, now, None, None,
                            original_amount,
                            IF original_amount = None THEN None
                            ELSE Some("USD"), {})
       IN IF ~TransactionLegacyConstraints(t, users)
          THEN result' = "IntegrityError" /\ UNCHANGED store
          ELSE /\ transactions' = Append(transactions, t)
               /\ balance' = update_balance_insert(balance, t)
               /\ result' = "ok"
               /\ UNCHANGED <<users, agents, tags, orders>>
    /\ asked' = <<>>
    /\ UNCHANGED <<now, currencies, revision, peer_ex, peer_pay, ex>>

\* Rows are written at the earlier revision, a balance may be written past
\* the triggers, the store is upgraded, and pay goes on at the head.
NextMigration ==
    \/ /\ Len(transactions) < MaxLegacyTx
       /\ \E to \in {"test2", "test3"}, a \in {-2, 0, 3},
             o \in {None, Some(-2), Some(2)} :
             legacy_insert_Transaction("test1", to, a, o)
    \/ /\ revision = DOWN_REVISION
       /\ balance["test3"] = 0
       /\ session_set_balance("test3", 1)
    \/ setup_database
    \/ /\ revision = HEAD
       /\ Len(transactions) < MaxLegacyTx + 1
       /\ pay("test1", "test2", -2, None, None, None, None, <<>>, Yes)

SpecMigration == InitMigration /\ [][NextMigration]_vars

\* ------------------------------------------------- two clients paying

\* test1 pays through the engine while the pay of a second client, run by
\* test2, is between its reads and its commit.
NextPeers ==
    \/ Tick(MaxTime)
    \/ /\ Len(transactions) < MaxPeerTx
       /\ \E r \in {"test2", "test3"}, a \in {-1, 2} :
             pay("test1", r, a, None, None, None, None, <<>>, Yes)
    \/ /\ Len(transactions) < MaxPeerTx
       /\ \E r \in {"test1", "test2"}, a \in {-1, 2} :
             peer_pay_begin("test2", r, a)
    \/ peer_pay_commit

SpecPeers == InitPay /\ [][NextPeers]_vars

\* ------------------------------------------ two clients executing orders

\* test1 has one standing order, of 1 to test2 at every instant from 0 on,
\* and two processes call execute_orders.
NextRunners ==
    \/ Tick(ShortHorizon)
    \/ /\ Idle
       /\ peer_ex.pc = "idle"
       /\ orders = <<>>
       /\ create_order("test1", "order1", "test2", 1, rrule(0, 1, None))
    \/ execute_orders_begin
    \/ execute_order_enter
    \/ execute_order_pay
    \/ execute_order_commit
    \/ execute_orders_end
    \/ switch

SpecRunners == InitSched /\ [][NextRunners]_vars

\* ------------------------------------------------------------ the claims

\* C1: in every state of the store, each user's stored balance is the sum of
\* converted_amount over the transactions to the user minus the sum over the
\* transactions from the user.
C1_BalanceIsSignedSum ==
    \A u \in users :
        balance[u] = incoming_sum(transactions, u)
                       - outgoing_sum(transactions, u)

\* A user has received and sent money, through a standing order and through
\* a payment or an import.
C1_Witness ==
    /\ \E i \in DOMAIN transactions : transactions[i].standing_order # None
    /\ \E i \in DOMAIN transactions :
          /\ transactions[i].standing_order = None
          /\ transactions[i].converted_amount > 0
    /\ \E u \in users :
          /\ incoming_sum(transactions, u) > 0
          /\ outgoing_sum(transactions, u) > 0
    /\ \E u \in users : balance[u] # 0

\* C2: between operations, and at every commit in between, the stored
\* balances of all users add up to zero.
C2_BalancesSumToZero == balance_sum(balance, users) = 0

\* Money has moved by a payment and by a standing order, and the balances are
\* not all zero.
C2_Witness ==
    /\ \E i \in DOMAIN transactions : transactions[i].standing_order # None
    /\ \E i \in DOMAIN transactions : transactions[i].standing_order = None
    /\ \E u \in users : balance[u] > 0
    /\ Cardinality(users) = 3

\* The last row of transactions' is new and the rows before it are unchanged.
OneRowAdded ==
    /\ Len(transactions') = Len(transactions) + 1
    /\ SubSeq(transactions', 1, Len(transactions)) = transactions

\* C3: a successful pay of a >= 0 adds one transaction from the current user
\* to the recipient with converted_amount a, lowers the current user's
\* balance by a, raises the recipient's by a and changes no other balance.
C3_PayMovesAmount ==
    [][\A in \in PayInputs :
          (in[2] >= 0 /\ result' = "ok"
             /\ pay("test1", in[1], in[2], Some(in[3]), None, None, None,
                    <<>>, Yes))
          => /\ OneRowAdded
             /\ LET t == transactions'[Len(transactions')]
                IN /\ t.user_from = "test1"
                   /\ t.user_to = in[1]
                   /\ t.converted_amount = in[2]
             /\ balance'["test1"] = balance["test1"] - in[2]
             /\ balance'[in[1]] = balance[in[1]] + in[2]
             /\ \A u \in users \ {"test1", in[1]} : balance'[u] = balance[u]
             /\ users' = users]_vars

\* The current user has paid 3 and has paid 0, and the third user's balance
\* is not zero.
C3_Witness ==
    /\ result = "ok"
    /\ \E i, j \in DOMAIN transactions :
          /\ transactions[i].user_from = "test1"
          /\ transactions[i].converted_amount = 3
          /\ transactions[j].user_from = "test1"
          /\ transactions[j].converted_amount = 0
          /\ j = Len(transactions)
          /\ balance[CHOOSE u \in users :
                        u \notin {"test1", transactions[j].user_to}] # 0

\* C4: a successful pay of a < 0 adds one transaction from the recipient to
\* the current user with converted_amount |a|, raising the current user's
\* balance by |a| and lowering the recipient's; no stored amount is negative.
C4_NegativePayIsReversed ==
    /\ [](\A i \in DOMAIN transactions : transactions[i].converted_amount >= 0)
    /\ [][\A in \in PayInputs :
            (in[2] < 0 /\ result' = "ok"
               /\ pay("test1", in[1], in[2], Some(in[3]), None, None, None,
                      <<>>, Yes))
            => /\ OneRowAdded
               /\ LET t == transactions'[Len(transactions')]
                  IN /\ t.user_from = in[1]
                     /\ t.user_to = "test1"
                     /\ t.converted_amount = -in[2]
               /\ balance'["test1"] = balance["test1"] - in[2]
               /\ balance'[in[1]] = balance[in[1]] + in[2]
               /\ \A u \in users \ {"test1", in[1]} : balance'[u] = balance[u]
       ]_vars

\* The last transaction goes to the current user, who paid a negative amount,
\* and an earlier one goes from the current user.
C4_Witness ==
    /\ result = "ok"
    /\ \E i, j \in DOMAIN transactions :
          /\ i < j /\ j = Len(transactions)
          /\ transactions[i].user_from = "test1"
          /\ transactions[i].converted_amount = 3
          /\ transactions[j].user_to = "test1"
          /\ transactions[j].user_created = "test1"
          /\ transactions[j].converted_amount = 2
          /\ balance["test1"] = -1

\* The rows of txs a standing order created, their due instants, and the
\* order's recurrence rule.
TxOf(txs, o) == {i \in DOMAIN txs : txs[i].standing_order = Some(o)}
DuesOf(txs, o) == {txs[i].dt_due_utc : i \in TxOf(txs, o)}
RuleOf(o) == rrulestr(orders[o].rrule_str)
Range(q) == {q[i] : i \in DOMAIN q}

\* The first n instants of rule r, and its instants before c.
FirstInstants(r, n) ==
    {r.dtstart + k * r.interval :
        k \in {j \in 0..(n - 1) : r.count = None \/ j < r.count[1]}}
InstantsBefore(r, c) == {t \in FirstInstants(r, c + 1) : t < c}

\* The step is the commit that ends _execute_order for order o.
CommitsOrder(o) == ex.pc = "order" /\ ex.order = o /\ ex'.pc = "orders"

\* C5: no two transactions of the same standing order have the same due
\* instant, and an order's dt_next_utc changes only to a later instant or
\* to None.
C5_NoOccurrenceTwice ==
    /\ [](\A i, j \in DOMAIN transactions :
            (/\ i # j
             /\ transactions[i].standing_order # None
             /\ transactions[i].standing_order = transactions[j].standing_order)
            => transactions[i].dt_due_utc # transactions[j].dt_due_utc)
    /\ [][\A o \in DOMAIN orders :
            orders'[o].dt_next_utc # orders[o].dt_next_utc
            => /\ orders[o].dt_next_utc # None
               /\ \/ orders'[o].dt_next_utc = None
                  \/ orders'[o].dt_next_utc[1] > orders[o].dt_next_utc[1]
         ]_vars

\* An order has transactions from two calls of execute_orders and is still
\* active.
C5_Witness ==
    \E o \in DOMAIN orders :
        /\ orders[o].dt_next_utc # None
        /\ \E i, j \in TxOf(transactions, o) :
              transactions[i].dt_created_utc # transactions[j].dt_created_utc
        /\ Cardinality(TxOf(transactions, o)) >= 4

\* The step commits the first execution of unbounded order o, whose first
\* occurrence is 5 intervals before the utc_now of the execution.
FirstRunAfterFive(o) ==
    /\ CommitsOrder(o)
    /\ RuleOf(o).count = None
    /\ orders[o].dt_next_utc = Some(RuleOf(o).dtstart)
    /\ ex.order_utc_now = RuleOf(o).dtstart + 5 * RuleOf(o).interval

\* C6 as stated: such an execution creates 5 transactions and leaves
\* dt_next_utc at dtstart + 5 intervals.
C6_FiveTransactions ==
    [][\A o \in DOMAIN orders :
          FirstRunAfterFive(o)
          => /\ Len(transactions') = Len(transactions) + 5
             /\ orders'[o].dt_next_utc
                  = Some(RuleOf(o).dtstart + 5 * RuleOf(o).interval)]_vars

\* C6, amended: such an execution creates 6 transactions, due at dtstart,
\* dtstart + 1 interval, ..., dtstart + 5 intervals, and leaves dt_next_utc
\* at dtstart + 6 intervals; the query of a second call with the same
\* utc_now does not select the order.
C6_SixTransactions ==
    [][\A o \in DOMAIN orders :
          FirstRunAfterFive(o)
          => /\ Len(transactions') = Len(transactions) + 6
             /\ SubSeq(transactions', 1, Len(transactions)) = transactions
             /\ TxOf(transactions, o) = {}
             /\ Cardinality(TxOf(transactions', o)) = 6
             /\ DuesOf(transactions', o) = FirstInstants(RuleOf(o), 6)
             /\ orders'[o].dt_next_utc
                  = Some(RuleOf(o).dtstart + 6 * RuleOf(o).interval)
             /\ ~order_is_selected(orders'[o], ex.order_utc_now)]_vars

\* An unbounded order was executed once, 5 intervals after its first
\* occurrence, and a second call at the same instant has selected nothing.
C6_Witness ==
    \E o \in DOMAIN orders :
        /\ RuleOf(o).count = None
        /\ TxOf(transactions, o) # {}
        /\ \A i \in TxOf(transactions, o) :
              transactions[i].dt_created_utc
                = RuleOf(o).dtstart + 5 * RuleOf(o).interval
        /\ now = RuleOf(o).dtstart + 5 * RuleOf(o).interval
        /\ ex.pc = "orders" /\ ex.queue = <<>> /\ ex.utc_now = now

\* C7: the commit of an execution of an order with count = N whose utc_now
\* is at or after the last occurrence leaves the order with exactly N
\* transactions, one per occurrence, and dt_next_utc None; an order whose
\* dt_next_utc is None gets no further transaction.
C7_CountedOrderExpires ==
    /\ [][\A o \in DOMAIN orders :
            (/\ CommitsOrder(o)
             /\ RuleOf(o).count # None
             /\ ex.order_utc_now >= RuleOf(o).dtstart
                   + (RuleOf(o).count[1] - 1) * RuleOf(o).interval)
            => /\ orders'[o].dt_next_utc = None
               /\ Cardinality(TxOf(transactions', o)) = RuleOf(o).count[1]
               /\ DuesOf(transactions', o)
                    = FirstInstants(RuleOf(o), RuleOf(o).count[1])
         ]_vars
    /\ [][\A o \in DOMAIN orders :
            orders[o].dt_next_utc = None
            => TxOf(transactions', o) = TxOf(transactions, o)
         ]_vars

\* An order with count = 3 has expired after executions in several calls,
\* and a further call has found nothing to do.
C7_Witness ==
    \E o \in DOMAIN orders :
        /\ RuleOf(o).count = Some(3)
        /\ orders[o].dt_next_utc = None
        /\ Cardinality(TxOf(transactions, o)) = 3
        /\ \E i, j \in TxOf(transactions, o) :
              transactions[i].dt_created_utc # transactions[j].dt_created_utc
        /\ ex.pc = "orders" /\ ex.queue = <<>>

\* C8: an order whose dt_next_utc is None keeps it None in every step.
C8_TerminalStaysTerminal ==
    [][\A o \in DOMAIN orders :
          orders[o].dt_next_utc = None
          => o \in DOMAIN orders' /\ orders'[o].dt_next_utc = None]_vars

\* An unbounded order was disabled while occurrences were overdue, and a
\* later call of execute_orders is returning.
C8_Witness ==
    \E o \in DOMAIN orders :
        /\ RuleOf(o).count = None
        /\ orders[o].dt_next_utc = None
        /\ Cardinality(TxOf(transactions, o)) = 1
        /\ now > RuleOf(o).dtstart + 2 * RuleOf(o).interval
        /\ ex.pc = "orders" /\ ex.queue = <<>>

\* C9: during a call of execute_orders, an order whose dt_next_utc equals the
\* call's utc_now is not among the selected orders, gets no transaction and
\* keeps its row; transactions are only created for an order in a call whose
\* utc_now is strictly after the order's dt_next_utc.
C9_DueExactlyNowIsSkipped ==
    /\ [][\A o \in DOMAIN orders :
            (ex'.pc # "idle" /\ orders[o].dt_next_utc = Some(ex'.utc_now))
            => /\ o \notin Range(ex'.queue)
               /\ o # ex'.order
               /\ orders'[o] = orders[o]
               /\ TxOf(transactions', o) = TxOf(transactions, o)
         ]_vars
    /\ [][\A o \in DOMAIN orders :
            TxOf(transactions', o) # TxOf(transactions, o)
            => /\ orders[o].dt_next_utc # None
               /\ ex.utc_now > orders[o].dt_next_utc[1]
         ]_vars

\* A call has selected nothing although an order is due exactly at the
\* call's utc_now, and the clock has moved on.
C9_Witness ==
    /\ ex.pc = "orders" /\ ex.queue = <<>>
    /\ now > ex.utc_now
    /\ \E o \in DOMAIN orders :
          /\ orders[o].dt_next_utc = Some(ex.utc_now)
          /\ TxOf(transactions, o) # {}

\* C10: at every instant, whatever was interrupted, the transactions of an
\* order are one per occurrence before its dt_next_utc (before some instant,
\* if dt_next_utc is None), and when execute_orders returns no order has an
\* occurrence before the call's utc_now left to execute.
C10_RowsAndCursorCommitTogether ==
    /\ [](\A o \in DOMAIN orders :
            /\ Cardinality(TxOf(transactions, o))
                 = Cardinality(DuesOf(transactions, o))
            /\ IF orders[o].dt_next_utc # None
               THEN DuesOf(transactions, o)
                      = InstantsBefore(RuleOf(o), orders[o].dt_next_utc[1])
               ELSE \E c \in 0..(now + 1) :
                      DuesOf(transactions, o) = InstantsBefore(RuleOf(o), c))
    /\ [][(ex.pc = "orders" /\ ex'.pc = "idle" /\ result' = "ok")
            => \A o \in DOMAIN orders :
                  orders[o].dt_next_utc # None
                  => orders[o].dt_next_utc[1] >= ex.utc_now
         ]_vars

\* execute_orders was interrupted between the commits of two orders: one has
\* its transactions and its new cursor, the other is still overdue.
C10_Witness ==
    /\ result = "interrupted"
    /\ \E o1, o2 \in DOMAIN orders :
          /\ TxOf(transactions, o1) # {}
          /\ orders[o1].dt_next_utc # None
          /\ orders[o1].dt_next_utc[1] > now
          /\ TxOf(transactions, o2) = {}
          /\ orders[o2].dt_next_utc # None
          /\ orders[o2].dt_next_utc[1] < now
\* C11: check raises exactly when the stored balances of a non-empty set of
\* users do not add up to zero or some user's stored balance is not the sum
\* of the incoming minus the sum of the outgoing transactions; so it raises
\* when the balances add up to zero and no transaction matches them, and it
\* passes on a store without users.
C11_CheckRaisesIff ==
    /\ [][check =>
            ((result' = "AssertionError")
                <=> (\/ users # {} /\ ~C2_BalancesSumToZero
                     \/ ~C1_BalanceIsSignedSum))]_vars
    /\ [][check /\ users = {} => result' = "ok"]_vars
    /\ [][(/\ check
           /\ C2_BalancesSumToZero
           /\ transactions = <<>>
           /\ \E u \in users : balance[u] # 0)
              => result' = "AssertionError"]_vars

\* check has raised on two users whose balances cancel and who have no
\* transaction.
C11_Witness ==
    /\ result = "AssertionError"
    /\ Cardinality(users) = 2
    /\ balance_sum(balance, users) = 0
    /\ \E u \in users : balance[u] # 0
    /\ transactions = <<>>

\* C12: a pay that fails, at whatever step (unknown recipient, declined
\* agent question, declined question for a missing tag, constraint violated
\* at the insert), leaves the whole store as it was: no transaction, no
\* agent, no tag, not even the tags created for earlier names of the same
\* call, and no balance changed. Every step of NextPayTags that leaves the
\* clock alone is a call of pay.
C12_FailedPayPersistsNothing ==
    [][(now' = now /\ result' # "ok") => UNCHANGED store]_vars

\* pay has failed on the question for tag c, after the questions for the
\* agent and for tag a were confirmed, and the store has neither agent nor
\* tag.
C12_Witness ==
    /\ result = "MpayException"
    /\ asked = <<Question("agent", <<"agent1">>), Question("tag", <<"a">>),
                 Question("tag", <<"c">>)>>
    /\ agents = {}
    /\ tags = <<>>
    /\ transactions = <<>>

\* C13: pay with the current user as recipient raises, for every amount
\* (positive, zero, negative), and creates no transaction and changes no
\* balance. What it raises is MpayException.
C13_PayToSelfRejected ==
    [][\A in \in PayInputs :
          (/\ in[1] = "test1"
           /\ pay("test1", in[1], in[2], Some(in[3]), None, None, None,
                  <<>>, Yes))
              => result' = "MpayException" /\ UNCHANGED store]_vars

\* The current user has paid others and has then been refused a payment to
\* themself.
C13_Witness ==
    /\ result = "MpayException"
    /\ Len(transactions) = 2
    /\ balance["test1"] # 0

\* C14: create_order with the current user as recipient always fails and
\* persists no standing order; a call that is valid otherwise is refused by
\* the store's CHECK user_from_id <> user_to_id.
C14_OrderToSelfRejected ==
    [][\A me \in {"test1", "test2"}, n \in OrderNameInputs,
          a \in OrderAmounts, rr \in OrderRrules :
          create_order(me, n, me, a, rr)
              => /\ result' \in {"MpayValueError", "IntegrityError"}
                 /\ (n # "" /\ a > 0) => result' = "IntegrityError"
                 /\ UNCHANGED store]_vars

\* An order to oneself has been refused by the store, the only refusal the
\* store can make while it has no order.
C14_Witness ==
    /\ result = "IntegrityError"
    /\ orders = <<>>

\* C17: create_order with an amount <= 0 raises MpayValueError and persists
\* nothing, so every order it has created has an amount > 0; pay accepts a
\* zero and a negative amount.
C17_OrderAmountPositive ==
    /\ [](\A i \in DOMAIN orders : orders[i].amount > 0)
    /\ [][\A me \in {"test1", "test2"}, n \in OrderNameInputs,
             r \in UserNames, a \in OrderAmounts, rr \in OrderRrules :
             (a <= 0 /\ create_order(me, n, r, a, rr))
                 => result' = "MpayValueError" /\ UNCHANGED store]_vars
    /\ [][\A a \in {-2, 0} :
             (/\ Len(transactions) < MaxTx
              /\ pay("test1", "test2", a, None, None, None, None, <<>>, Yes))
                 => result' = "ok" /\ OneRowAdded]_vars

\* An order exists, a payment of amount zero is stored, and create_order has
\* just refused an amount.
C17_Witness ==
    /\ result = "MpayValueError"
    /\ orders # <<>>
    /\ \E i \in DOMAIN transactions : transactions[i].converted_amount = 0

\* C18: no two standing orders have the same name and the same sender:
\* create_order with a name the current user already uses fails and
\* persists nothing, and a sender who does not use the name creates the
\* order even when another sender uses it.
C18_OrderNameUniquePerSender ==
    /\ [](\A i, j \in DOMAIN orders :
             (/\ orders[i].name = orders[j].name
              /\ orders[i].user_from = orders[j].user_from) => i = j)
    /\ [][\A me \in {"test1", "test2"}, r \in {"test1", "test2"},
             n \in OrderNameInputs \ {""}, rr \in OrderRrules :
             (me # r /\ create_order(me, n, r, 1, rr))
                 => IF \E i \in DOMAIN orders :
                          /\ orders[i].name = "order1"
                          /\ orders[i].user_from = me
                    THEN result' = "IntegrityError" /\ UNCHANGED store
                    ELSE /\ result' = "ok"
                         /\ Len(orders') = Len(orders) + 1
                         /\ orders'[Len(orders')].name = "order1"
                         /\ orders'[Len(orders')].user_from = me]_vars

\* Both users have an order named order1, and a further create_order has
\* been refused by the store.
C18_Witness ==
    /\ Len(orders) = 2
    /\ orders[1].name = orders[2].name
    /\ orders[1].user_from # orders[2].user_from
    /\ result = "IntegrityError"

\* C19: disable_order of an existing order has exactly three outcomes. The
\* order has no next occurrence: it returns True, asks nothing and changes
\* nothing. The order has one and the question is declined: it returns False
\* and changes nothing. The order has one and the question is confirmed:
\* it returns True and sets dt_next_utc to None, changing nothing else.
C19_DisableOrderOutcomes ==
    [][\A n \in OrderNames, k \in {Yes, No} :
          (disable_order("test1", n, k) /\ find_order("test1", n) # {})
              => LET i == CHOOSE j \in find_order("test1", n) : TRUE
                     q == Question("irreversible", <<>>)
                 IN IF orders[i].dt_next_utc = None
                    THEN /\ result' = "True"
                         /\ asked' = <<>>
                         /\ UNCHANGED store
                    ELSE IF ~k[q]
                    THEN /\ result' = "False"
                         /\ asked' = <<q>>
                         /\ UNCHANGED store
                    ELSE /\ result' = "True"
                         /\ asked' = <<q>>
                         /\ orders' =
                               [orders EXCEPT ![i].dt_next_utc = None]
                         /\ UNCHANGED <<users, balance, agents, tags,
                                        transactions>>]_vars

\* An order that has run out of occurrences, with its transactions stored,
\* has been disabled without a question.
C19_Witness ==
    /\ result = "True"
    /\ asked = <<>>
    /\ Len(orders) = 1
    /\ orders[1].dt_next_utc = None
    /\ Cardinality(TxOf(transactions, 1)) = 3

\* C15: pay with a due instant later than the instant the row is created at
\* is refused and persists nothing; a due instant at or before it is
\* accepted and stored.
C15_DueNotInFuture ==
    [][\A in \in PayInputs :
          (/\ in[1] \in {"test2", "test3"}
           /\ pay("test1", in[1], in[2], Some(in[3]), None, None, None,
                  <<>>, Yes))
              => IF in[3] > now
                 THEN result' = "IntegrityError" /\ UNCHANGED store
                 ELSE /\ result' = "ok"
                      /\ OneRowAdded
                      /\ transactions'[Len(transactions')].dt_due_utc = in[3]
                      /\ transactions'[Len(transactions')].dt_created_utc
                            = now]_vars

\* A payment due at the instant of its creation is stored, and a payment
\* due later has been refused.
C15_Witness ==
    /\ result = "IntegrityError"
    /\ \E i \in DOMAIN transactions :
          transactions[i].dt_due_utc = transactions[i].dt_created_utc

\* C16: pay with an original amount and no original currency fails, pay
\* with a currency code that is no row of currencies fails, and neither
\* persists a transaction; every stored transaction has its original amount
\* and its original currency both or neither.
C16_OriginalsArePaired ==
    /\ [](\A i \in DOMAIN transactions :
             (transactions[i].original_amount = None)
                 = (transactions[i].original_currency = None))
    /\ [][\A c \in Originals, t \in {<<>>, << <<"a">>, <<"c">> >>} :
             pay("test1", "test2", 3, Some(0), c[1], c[2], None, t, Yes)
                 => IF c[1] # None /\ c[1][1] \notin Currencies
                    THEN result' = "MpayValueError" /\ UNCHANGED store
                    ELSE IF (c[1] = None) # (c[2] = None)
                    THEN result' = "IntegrityError" /\ UNCHANGED store
                    ELSE result' = "ok" /\ OneRowAdded]_vars

\* A transaction with an original amount in USD is stored, and a payment in
\* an unknown currency has been refused.
C16_Witness ==
    /\ result = "MpayValueError"
    /\ asked = <<>>
    /\ Len(transactions) = 1
    /\ transactions[1].original_amount = Some(5)
    /\ transactions[1].original_currency = Some("USD")

\* C20: import_df persists every row of the dataframe or nothing: when a
\* row fails, user1 or user2 does not exist or a question is declined, no
\* transaction and no agent is stored and no balance changes. Every step of
\* NextImport that leaves the clock alone is a call of import_df.
C20_ImportIsAllOrNothing ==
    /\ [][(now' = now /\ result' # "ok") => UNCHANGED store]_vars
    /\ [][\A df \in ImportFrames :
             import_df(df, "test1", "test2", "agent1", Yes)
                 => IF \A i \in DOMAIN df :
                          /\ df[i].dt_due # None
                          /\ df[i].dt_due[1] <= now
                    THEN /\ result' = "ok"
                         /\ Len(transactions')
                               = Len(transactions) + Len(df)
                         /\ SubSeq(transactions', 1, Len(transactions))
                               = transactions
                         /\ agents' = agents \cup {"agent1"}
                    ELSE result' # "ok" /\ UNCHANGED store]_vars

\* The question for the agent was confirmed and the question to proceed was
\* declined: import_df has raised and the store has no agent and no
\* transaction.
C20_Witness ==
    /\ result = "Exception"
    /\ asked = <<Question("agent", <<"agent1">>), Question("proceed", <<>>)>>
    /\ agents = {}
    /\ transactions = <<>>

\* C21: a committed import_df stores one transaction per row of the
\* dataframe, in order, from user2 to user1 when the amount is > 0 and from
\* user1 to user2 when it is <= 0, each with converted_amount = |amount|;
\* user1's balance changes by the signed sum of the amounts, the figure the
\* question to proceed shows, user2's by its negation, and no other balance
\* changes.
C21_ImportDirectionAndNet ==
    [][\A df \in NetFrames, u1 \in {"test1", "test2"},
          u2 \in {"test1", "test2"}, k \in {Yes, No} :
          (result' = "ok" /\ import_df(df, u1, u2, "agent1", k))
              => /\ Len(transactions') = Len(transactions) + Len(df)
                 /\ SubSeq(transactions', 1, Len(transactions))
                       = transactions
                 /\ \A i \in DOMAIN df :
                       LET t == transactions'[Len(transactions) + i]
                       IN /\ t.converted_amount = abs(df[i].amount)
                          /\ t.user_from
                                = IF df[i].amount > 0 THEN u2 ELSE u1
                          /\ t.user_to
                                = IF df[i].amount > 0 THEN u1 ELSE u2
                 /\ balance'[u1]
                       = balance[u1] + import_user1_balance(df)
                 /\ balance'[u2]
                       = balance[u2] - import_user1_balance(df)
                 /\ \A u \in users \ {u1, u2} : balance'[u] = balance[u]
       ]_vars

\* A dataframe with a positive and a negative row was imported with test2
\* as user1, after an import with test1 as user1: the net figures 3 - 2 and
\* 3 are on the two balances.
C21_Witness ==
    /\ result = "ok"
    /\ Len(transactions) = 3
    /\ transactions[1].user_to = "test1"
    /\ transactions[2].user_from = "test1" /\ transactions[2].user_to = "test2"
    /\ transactions[2].converted_amount = 3
    /\ transactions[3].user_from = "test2" /\ transactions[3].user_to = "test1"
    /\ transactions[3].converted_amount = 2
    /\ balance["test1"] = 3 - 1
    /\ balance["test3"] = 0

\* The row create_tag(n, p) would insert is a row of tags already: the
\* parent resolves, and a tag of that name has that parent.
TagExists(n, p) ==
    /\ sanitize_tag_name(n) # None
    /\ p # None => find_tag(p[1], tags).status = "ok"
    /\ \E i \in DOMAIN tags :
          /\ tags[i].name = sanitize_tag_name(n)[1]
          /\ tags[i].parent = IF p = None THEN None
                              ELSE Some(find_tag(p[1], tags).tag)

\* C22 as stated: after any sequence of create_tag, pay and add_tags, no two
\* tags have the same name and the same parent, two root tags included, and
\* create_tag of a name that exists under the parent fails and creates
\* nothing.
C22_TagNameUniquePerParent ==
    /\ [](\A i, j \in DOMAIN tags :
             (tags[i].name = tags[j].name /\ tags[i].parent = tags[j].parent)
                 => i = j)
    /\ [][\A n \in TagNameInputs, p \in TagParentInputs :
             (TagExists(n, p) /\ create_tag(n, p))
                 => result' # "ok" /\ UNCHANGED store]_vars

\* create_tag has stored a second root tag of the same name.
C22_Witness ==
    /\ result = "ok"
    /\ Len(tags) = 2
    /\ tags[1] = Tag("tag2", None)
    /\ tags[2] = Tag("tag2", None)

\* The ids of the tags whose hierarchical name is the path p.
TagsAt(p) == {i \in DOMAIN tags : hierarchical_name(i, tags) = p}

\* C23: find_tag returns only a tag whose chain of parents spells the path
\* it was given. When root tag2 and a/b/tag2 have both been created, once
\* each, find_tag of a/b/tag2 returns the tag whose parent is b, whose
\* parent is a, which has no parent, find_tag of tag2 returns the root tag,
\* and the two are different rows.
C23_NestedTagIsNotRootTag ==
    /\ \A p \in TagPaths :
          find_tag(p, tags).status = "ok"
              => find_tag(p, tags).tag \in TagsAt(p)
    /\ (/\ Cardinality(TagsAt(<<"tag2">>)) = 1
        /\ Cardinality(TagsAt(<<"a">>)) = 1
        /\ TagsAt(<<"a", "b", "tag2">>) # {})
          => LET nested == find_tag(<<"a", "b", "tag2">>, tags)
                 root == find_tag(<<"tag2">>, tags)
                 b == tags[nested.tag].parent
                 a == tags[b[1]].parent
             IN /\ nested.status = "ok"
                /\ root.status = "ok"
                /\ nested.tag # root.tag
                /\ tags[root.tag] = Tag("tag2", None)
                /\ tags[nested.tag].name = "tag2"
                /\ b # None /\ tags[b[1]].name = "b"
                /\ a # None /\ tags[a[1]] = Tag("a", None)

\* As in test_hierarchical_tag: a payment was tagged a/b/tag2, which created
\* a, b and tag2, and then tagged with a new root tag2.
C23_Witness ==
    /\ Len(tags) = 4
    /\ tags[3] = Tag("tag2", Some(2))
    /\ tags[4] = Tag("tag2", None)
    /\ Len(transactions) = 1
    /\ transactions[1].tags = {3, 4}
    /\ find_tag(<<"a", "b", "tag2">>, tags).tag = 3
    /\ find_tag(<<"tag2">>, tags).tag = 4

\* The ids of the tags the names of tl resolve to in tgs, and whether they
\* all resolve.
ResolvedTags(tl, tgs) == {find_tag(tl[i], tgs).tag : i \in DOMAIN tl}
AllResolve(tl, tgs) == \A i \in DOMAIN tl : find_tag(tl[i], tgs).status = "ok"

\* Transaction i of the next state is transaction i with the tags S.
TagsBecome(i, S) == transactions'[i] = [transactions[i] EXCEPT !.tags = S]

\* C24: a successful add_tags(ids, tags) makes each listed transaction's
\* tags the former ones united with the resolved tags, for every id and
\* every tag; remove_tags of tags that resolve makes them the former ones
\* minus the resolved tags; no other transaction, no other column and no
\* balance changes. Adding tags that are all present and removing tags that
\* are all absent succeeds and changes nothing, so a second identical call
\* leaves what the first call left.
C24_AddAndRemoveTags ==
    /\ [][\A ids \in TransactionIdLists, tl \in AddTagLists,
             k \in {Yes, No} :
             add_tags(ids, tl, k)
                 => /\ AllResolve(tl, tags) => result' = "ok"
                    /\ result' = "ok"
                         => /\ AllResolve(tl, tags')
                            /\ \A i \in DOMAIN transactions :
                                  TagsBecome(i,
                                     IF i \in ids
                                     THEN transactions[i].tags
                                            \cup ResolvedTags(tl, tags')
                                     ELSE transactions[i].tags)
                            /\ DOMAIN transactions' = DOMAIN transactions
                            /\ UNCHANGED <<users, balance>>
                    /\ (/\ AllResolve(tl, tags)
                        /\ \A i \in ids :
                              ResolvedTags(tl, tags)
                                  \subseteq transactions[i].tags)
                         => UNCHANGED store]_vars
    /\ [][\A ids \in TransactionIdLists, tl \in RemoveTagLists :
             (AllResolve(tl, tags) /\ remove_tags(ids, tl))
                 => /\ result' = "ok"
                    /\ \A i \in DOMAIN transactions :
                          TagsBecome(i,
                             IF i \in ids
                             THEN transactions[i].tags
                                    \ ResolvedTags(tl, tags)
                             ELSE transactions[i].tags)
                    /\ DOMAIN transactions' = DOMAIN transactions
                    /\ UNCHANGED <<users, balance, tags>>
                    /\ (\A i \in ids :
                           ResolvedTags(tl, tags) \cap transactions[i].tags
                               = {})
                         => UNCHANGED store]_vars

\* As in test_add_tag: the first payment was tagged c and a/b, the second
\* a/b; tag2 was added to both, which created it, and a/b was removed from
\* both.
C24_Witness ==
    /\ result = "ok"
    /\ Len(transactions) = 2
    /\ Len(tags) = 4
    /\ find_tag(<<"a", "b">>, tags).status = "ok"
    /\ transactions[1].tags
          = {find_tag(<<"c">>, tags).tag, find_tag(<<"tag2">>, tags).tag}
    /\ transactions[2].tags = {find_tag(<<"tag2">>, tags).tag}

\* C25: deleting a tag removes the tag, so that no name resolves to it, and
\* its association with every transaction; no transaction is deleted, every
\* transaction keeps its other tags and its other columns, and no user's
\* balance changes. No transaction is ever tagged with a deleted tag.
C25_DeleteTagKeepsTransactions ==
    /\ [](\A t \in DOMAIN transactions :
             \A g \in transactions[t].tags :
                 g \in DOMAIN tags /\ tags[g] # DeletedTag)
    /\ [][\A i \in DOMAIN tags :
             session_delete_Tag(i)
                 => /\ tags'[i] = DeletedTag
                    /\ \A p \in TagPaths :
                          find_tag(p, tags').status = "ok"
                              => find_tag(p, tags').tag # i
                    /\ DOMAIN transactions' = DOMAIN transactions
                    /\ \A t \in DOMAIN transactions :
                          /\ transactions'[t].tags
                                = transactions[t].tags \ {i}
                          /\ transactions'[t]
                                = [transactions[t] EXCEPT
                                      !.tags = transactions'[t].tags]
                    /\ \A j \in DOMAIN tags \ {i} :
                          tags'[j].name = tags[j].name
                    /\ UNCHANGED <<users, balance, agents, orders>>]_vars

\* Tag c was deleted from a store in which both transactions had it: both
\* are still stored, the one that also had a/b still has it, and the balances
\* are what the payments made them.
C25_Witness ==
    /\ result = "ok"
    /\ Len(transactions) = 2
    /\ \E g \in DOMAIN tags : tags[g] = DeletedTag
    /\ find_tag(<<"c">>, tags).status = "NoResultFound"
    /\ transactions[1].tags = {}
    /\ transactions[2].tags = {find_tag(<<"a", "b">>, tags).tag}
    /\ balance["test2"] = 6

\* C26: create_user with a name that does not match ^[a-z0-9_]+$ once
\* stripped raises MpayValueError, with a name in use it raises (the store's
\* UNIQUE constraint: IntegrityError), and both leave the store as it was;
\* with any other name it adds one user, with balance 0, and changes
\* nothing else. The names of the users are those create_user accepted,
\* each once.
C26_CreateUser ==
    [][\A n \in UserNameInputs :
          create_user(n)
              => IF n \in {"Uppercase", "user with space", ""}
                 THEN result' = "MpayValueError" /\ UNCHANGED store
                 ELSE LET name == IF n = " test1 " THEN "test1" ELSE n
                      IN IF name \in users
                         THEN result' = "IntegrityError" /\ UNCHANGED store
                         ELSE /\ result' = "ok"
                              /\ users' = users \cup {name}
                              /\ Cardinality(users') = Cardinality(users) + 1
                              /\ balance'[name] = 0
                              /\ \A u \in users : balance'[u] = balance[u]
                              /\ UNCHANGED <<agents, tags, transactions,
                                             orders>>]_vars

\* A third user was created after the first two had paid each other, and a
\* further create_user with a name in use was refused.
C26_Witness ==
    /\ result = "IntegrityError"
    /\ users = {"test1", "test2", "test3"}
    /\ balance["test1"] # 0
    /\ balance["test3"] = 0
    /\ Len(transactions) = 1
    /\ {transactions[1].user_from, transactions[1].user_to}
          = {"test1", "test2"}

\* C27 as stated: a successful pay returns the id of the transaction it has
\* just created, an id no transaction had before, and that id stays the id
\* of that transaction, which later add_tags and remove_tags calls address
\* by it.
C27_PayReturnsNewId ==
    /\ [][Len(transactions') > Len(transactions)
            => /\ pay_return_value # None
               /\ pay_return_value[1] \notin DOMAIN transactions
               /\ pay_return_value[1] = Len(transactions')]_vars
    /\ [][\A i \in DOMAIN transactions :
             /\ i \in DOMAIN transactions'
             /\ transactions'[i]
                   = [transactions[i] EXCEPT !.tags = transactions'[i].tags]
         ]_vars

\* Two payments have succeeded, and tags of the second were then removed
\* by its id.
C27_Witness ==
    /\ result = "ok"
    /\ Len(transactions) = 2
    /\ transactions[1].tags # {}
    /\ transactions[2].tags = {}

\* Table currencies holds exactly one row of each code setup_database offers.
Seeded ==
    \A c \in Currencies :
        Cardinality({i \in DOMAIN currencies :
                        currencies[i].iso_4217 = c}) = 1

\* C28: setup_database is idempotent. Every run of it on a store at the head
\* revision succeeds and leaves exactly one USD row and one EUR row in table
\* currencies, whether the rows were there or not, and no run alters the
\* users, the transactions or the balances; a run on a store that holds the
\* rows changes no table at all.
C28_SetupDatabaseIdempotent ==
    /\ [][setup_database
            => /\ result' = "ok"
               /\ Seeded'
               /\ UNCHANGED <<users, transactions, balance>>]_vars
    /\ [][(Seeded /\ setup_database)
            => UNCHANGED <<store, currencies>>]_vars
    /\ [][Seeded => Seeded']_vars

\* The store has been set up, test1 has since paid test2 in US dollars, and
\* the store has been set up once more.
C28_Witness ==
    /\ Seeded
    /\ \E i \in DOMAIN transactions :
          transactions[i].original_currency = Some("USD")
    /\ result = "ok"
    /\ Len(transactions) = MaxSetupTx
    /\ transactions[MaxSetupTx].original_currency = None

\* By how much the stored balance of u exceeds what the transactions give.
Discrepancy(bal, txs, u) ==
    bal[u] - (incoming_sum(txs, u) - outgoing_sum(txs, u))

\* C29: an UPDATE of a row of transactions in its user_from, its user_to
\* and its converted_amount, in any combination, and a DELETE of a row leave
\* every balance as far from incoming minus outgoing as it was, so balances
\* that agreed with the transactions still agree; and a DELETE changes the
\* balances back to what they were before the row was inserted.
C29_UpdateAndDeleteKeepBalances ==
    /\ [][(Len(transactions') = Len(transactions)
             /\ transactions' # transactions)
            => \A u \in users :
                  Discrepancy(balance', transactions', u)
                      = Discrepancy(balance, transactions, u)]_vars
    /\ [][\A i \in DOMAIN transactions :
            (transactions[i] # DeletedTransaction
               /\ transactions'[i] = DeletedTransaction)
              => balance = update_balance_insert(balance', transactions[i])]_vars

\* A row has been deleted, and another row, still there, has been given to
\* another sender; the balances agree with the transactions.
C29_Witness ==
    /\ \E i \in DOMAIN transactions : transactions[i] = DeletedTransaction
    /\ \E i \in DOMAIN transactions :
          /\ transactions[i] # DeletedTransaction
          /\ transactions[i].user_created # transactions[i].user_from
          /\ transactions[i].converted_amount > 0
    /\ result = "ok"
    /\ ~check_raises

\* The instants of rule r from a to b, both included, and its instants after
\* b: an instant has at most its own value as its index.
InstantsBetween(r, a, b) ==
    {t \in FirstInstants(r, b + 1) : a <= t /\ t <= b}
InstantsAfter(r, b) == {t \in FirstInstants(r, b + 2) : t > b}

\* C30: when _execute_order commits for an order, the rows it adds to table
\* transactions are one per instant of the order's rule from the order's old
\* dt_next_utc up to the utc_now it read, both included; each has the
\* order's user_from, user_to and amount, the instant as its dt_due_utc,
\* the order as its standing_order and the order's user_from as its
\* user_created; and the order's dt_next_utc becomes the first instant of
\* the rule strictly after that utc_now, or None when the rule has none.
C30_ExecuteOrderOccurrences ==
    [][\A o \in DOMAIN orders :
         CommitsOrder(o)
         => LET due == InstantsBetween(RuleOf(o), orders[o].dt_next_utc[1],
                                       ex.order_utc_now)
                later == InstantsAfter(RuleOf(o), ex.order_utc_now)
                new == (Len(transactions) + 1)..Len(transactions')
            IN /\ orders[o].dt_next_utc # None
               /\ SubSeq(transactions', 1, Len(transactions)) = transactions
               /\ Cardinality(new) = Cardinality(due)
               /\ {transactions'[i].dt_due_utc : i \in new} = due
               /\ \A i \in new :
                     /\ transactions'[i].user_from = orders[o].user_from
                     /\ transactions'[i].user_to = orders[o].user_to
                     /\ transactions'[i].converted_amount = orders[o].amount
                     /\ transactions'[i].standing_order = Some(o)
                     /\ transactions'[i].user_created = orders[o].user_from
               /\ orders'[o].dt_next_utc
                     = IF later = {} THEN None
                       ELSE Some(CHOOSE t \in later :
                                    \A s \in later : t <= s)]_vars

\* _execute_order has just committed three rows at once for an order, due
\* at 0, 1 and 2, and the order is to be paid next at 3.
C30_Witness ==
    /\ ex.pc = "orders"
    /\ \E o \in DOMAIN orders :
          /\ DuesOf(transactions, o) = {0, 1, 2}
          /\ \A i \in TxOf(transactions, o) :
                transactions[i].dt_created_utc = 2
          /\ orders[o].dt_next_utc = Some(3)

\* C31: every row of table transactions has a user_from other than its
\* user_to, a converted_amount >= 0, a dt_due_utc no later than its
\* dt_created_utc and users that exist; every row of table standing_orders
\* has a user_from other than its user_to and an amount >= 0.
C31_StoredRowsSatisfyConstraints ==
    /\ \A i \in DOMAIN transactions :
          /\ transactions[i].user_from # transactions[i].user_to
          /\ transactions[i].converted_amount >= 0
          /\ transactions[i].dt_due_utc <= transactions[i].dt_created_utc
          /\ transactions[i].user_from \in users
          /\ transactions[i].user_to \in users
    /\ \A o \in DOMAIN orders :
          /\ orders[o].user_from # orders[o].user_to
          /\ orders[o].amount >= 0

\* The store holds a transaction of a standing order and an order of amount
\* zero written past the engine, and has just refused a write.
C31_Witness ==
    /\ \E i \in DOMAIN transactions : transactions[i].standing_order # None
    /\ \E o \in DOMAIN orders : orders[o].amount = 0
    /\ result = "IntegrityError"

\* C34: once disable_order has answered True for order1 of test1, the order
\* has no dt_next_utc; and an order without dt_next_utc, however many of its
\* instants are overdue and unpaid, gets no transaction and no dt_next_utc
\* from any later step of execute_orders.
C34_DisabledOrderIsNeverPaid ==
    /\ [](result = "True"
            => \A o \in find_order("test1", "order1") :
                  orders[o].dt_next_utc = None)
    /\ [][\A o \in DOMAIN orders :
            orders[o].dt_next_utc = None
            => /\ TxOf(transactions', o) = TxOf(transactions, o)
               /\ orders'[o].dt_next_utc = None]_vars

\* order1, due at every instant from 0 on, was disabled before anything was
\* paid for it; at instant 2 the other order has been paid up to date and
\* order1 has still no transaction.
C34_Witness ==
    /\ now = 2
    /\ ex.pc = "idle"
    /\ \E o \in find_order("test1", "order1") :
          /\ orders[o].dt_next_utc = None
          /\ RuleOf(o) = rrule(0, 1, None)
          /\ TxOf(transactions, o) = {}
    /\ \E o \in find_order("test1", "order2") :
          /\ DuesOf(transactions, o) = {0, 1, 2}
          /\ orders[o].dt_next_utc = Some(3)

\* C35: when execute_orders returns, every standing order that still has a
\* dt_next_utc has one that is not before the utc_now the call read: each
\* order the query selected has been paid up to date, however many of its
\* instants were overdue.
C35_ExecuteOrdersCatchesUp ==
    [][(ex.pc = "orders" /\ ex'.pc = "idle" /\ result' = "ok")
         => \A o \in DOMAIN orders' :
               orders'[o].dt_next_utc # None
               => orders'[o].dt_next_utc[1] >= ex.utc_now]_vars

\* execute_orders has returned at instant 2 after it paid three instants of
\* each of two orders in one call.
C35_Witness ==
    /\ now = 2
    /\ ex.pc = "idle"
    /\ result = "ok"
    /\ Len(orders) = 2
    /\ \A o \in DOMAIN orders :
          /\ DuesOf(transactions, o) = {0, 1, 2}
          /\ \A i \in TxOf(transactions, o) :
                transactions[i].dt_created_utc = 2
          /\ orders[o].dt_next_utc = Some(3)

\* How many names at the head of path p find_tag resolves in table tgs.
ResolvedPrefix(p, tgs) ==
    LET ks == {k \in 1..Len(p) : find_tag(SubSeq(p, 1, k), tgs).status = "ok"}
    IN IF ks = {} THEN 0 ELSE CHOOSE k \in ks : \A j \in ks : j <= k

\* C36: for every hierarchical name and every table of tags the store gets
\* into, create_hierarchical_tag adds one row for each name of the path that
\* find_tag does not resolve, and none when find_tag resolves the whole
\* path, in which case it returns the tag find_tag finds; when it succeeds,
\* find_tag returns its tag afterwards, and a second call returns the same
\* tag and adds no row.
C36_CreateHierarchicalTagIdempotent ==
    \A p \in {tl[1] : tl \in PathLists} :
        LET found == find_tag(p, tags)
            once == create_hierarchical_tag(p, tags)
            twice == create_hierarchical_tag(p, once.tags)
        IN /\ found.status = "ok"
              => once = [status |-> "ok", tags |-> tags, tag |-> found.tag]
           /\ once.status = "ok"
              => /\ Len(once.tags) = Len(tags) + Len(p)
                                       - ResolvedPrefix(p, tags)
                 /\ SubSeq(once.tags, 1, Len(tags)) = tags
                 /\ find_tag(p, once.tags)
                       = [status |-> "ok", tag |-> once.tag]
                 /\ twice = once

\* test1 has paid twice with the tag "a /b": the store holds two root tags
\* named a, each with a child named b.
C36_Witness ==
    /\ Cardinality({i \in DOMAIN tags : tags[i] = Tag("a", None)}) = 2
    /\ Cardinality({i \in DOMAIN tags : tags[i].name = "b"}) = 2
    /\ Len(transactions) = 2
    /\ result = "ok"

RECURSIVE ReachesRoot(_, _, _)
\* From tag i of table tgs a tag without parent is reached in at most n
\* steps to the parent.
ReachesRoot(i, tgs, n) ==
    IF tgs[i].parent = None THEN TRUE
    ELSE IF n = 0 \/ tgs[i].parent[1] \notin DOMAIN tgs THEN FALSE
    ELSE ReachesRoot(tgs[i].parent[1], tgs, n - 1)

\* C37: whatever create_tag, pay and add_tags have been called with, every
\* tag reaches a tag without parent in fewer steps to the parent than there
\* are tags: the parents form no cycle.
C37_TagTreeAcyclic ==
    \A i \in DOMAIN tags : ReachesRoot(i, tags, Len(tags) - 1)

\* The store holds the chain a, a/b, a/b/tag2 and a root tag tag2.
C37_Witness ==
    \E i, j, k, l \in DOMAIN tags :
        /\ tags[i] = Tag("a", None)
        /\ tags[j] = Tag("b", Some(i))
        /\ tags[k] = Tag("tag2", Some(j))
        /\ tags[l] = Tag("tag2", None)

\* C39: a step that adds no row to table transactions, which is every step
\* of create_user, create_tag, create_agent, create_order, disable_order,
\* add_tags, remove_tags and check, ended well or not (and a pay that
\* failed), leaves every row of transactions as it was but for the tags
\* attached to it, and leaves the balance of every user that existed.
C39_OtherOperationsLeaveMoney ==
    [][Len(transactions') = Len(transactions)
         => /\ \A i \in DOMAIN transactions :
                  transactions'[i]
                      = [transactions[i] EXCEPT !.tags = transactions'[i].tags]
            /\ \A u \in users : u \in users' /\ balance'[u] = balance[u]]_vars

\* test1 has paid test2; since then a user, an agent and an order have been
\* created, the order has been disabled, and the transaction has been given
\* a tag that had to be created.
C39_Witness ==
    /\ Len(transactions) = 1
    /\ transactions[1].tags # {}
    /\ balance["test2"] = 3
    /\ "test3" \in users
    /\ agents # {}
    /\ \E o \in DOMAIN orders : orders[o].dt_next_utc = None
    /\ result = "True"

\* C40: with money counted in thousandths, every converted_amount and every
\* original_amount stored and every balance is, in magnitude, at most
\* 999999999, the largest value of nine digits with three of them after the
\* point.
C40_MoneyStaysInRange ==
    /\ \A i \in DOMAIN transactions :
          /\ abs(transactions[i].converted_amount) <= MaxMoney
          /\ transactions[i].original_amount # None
             => abs(transactions[i].original_amount[1]) <= MaxMoney
    /\ \A u \in users : abs(balance[u]) <= MaxMoney

\* test1 has paid test2 half a million twice: the balances are a million
\* and minus a million.
C40_Witness ==
    /\ Len(transactions) = 2
    /\ \A i \in DOMAIN transactions :
          /\ transactions[i].converted_amount = HalfMillion
          /\ transactions[i].standing_order = None
          /\ transactions[i].agent = None
    /\ balance["test2"] = 2 * HalfMillion
    /\ balance["test1"] = -2 * HalfMillion

\* The step in which setup_database takes the store from the earlier
\* revision to the head.
Upgraded == revision = DOWN_REVISION /\ revision' = HEAD

\* C38: the upgrade to revision 931cbe1524ae rewrites each transaction with
\* converted_amount < 0 by exchanging user_from and user_to and negating the
\* amount, and leaves the users and the amount of every other row; for every
\* user incoming minus outgoing is what it was and the balance is as far
\* from it as it was, so balances that agreed with the transactions still
\* agree; and afterwards no converted_amount and no original_amount is
\* negative.
C38_MigrationKeepsBalances ==
    [][Upgraded =>
          /\ Len(transactions') = Len(transactions)
          /\ \A i \in DOMAIN transactions :
                LET old == transactions[i]
                    new == transactions'[i]
                IN /\ old.converted_amount < 0 =>
                         /\ new.user_from = old.user_to
                         /\ new.user_to = old.user_from
                         /\ new.converted_amount = -old.converted_amount
                   /\ old.converted_amount >= 0 =>
                         /\ new.user_from = old.user_from
                         /\ new.user_to = old.user_to
                         /\ new.converted_amount = old.converted_amount
                   /\ new.converted_amount >= 0
                   /\ new.original_amount # None
                         => new.original_amount[1] >= 0
          /\ \A u \in users :
                /\ incoming_sum(transactions', u)
                      - outgoing_sum(transactions', u)
                   = incoming_sum(transactions, u)
                        - outgoing_sum(transactions, u)
                /\ Discrepancy(balance', transactions', u)
                      = Discrepancy(balance, transactions, u)]_vars

\* The store was upgraded with one row that test1 had written with -2 (and
\* -2 USD) to test2: the row now moves 2 from test2 to test1, and the
\* balances are the ones the row had given before.
C38_Witness ==
    /\ revision = HEAD
    /\ result = "ok"
    /\ Len(transactions) = 1
    /\ transactions[1].user_from = "test2"
    /\ transactions[1].user_to = "test1"
    /\ transactions[1].user_created = "test1"
    /\ transactions[1].converted_amount = 2
    /\ transactions[1].original_amount = Some(2)
    /\ balance["test1"] = 2
    /\ balance["test2"] = -2

\* C32: when a pay of one client commits while the pay of another is
\* between its reads and its commit, no balance update is lost: at every
\* moment each user's balance is incoming minus outgoing over the committed
\* transactions, and the commit of the second client's pay moves the
\* balances the store holds then by the amount of its row, whatever they
\* were when its session read them.
C32_ConcurrentPaysKeepBalances ==
    /\ [](\A u \in users :
             balance[u] = incoming_sum(transactions, u)
                             - outgoing_sum(transactions, u))
    /\ [][peer_pay.pc = "added" /\ peer_pay'.pc = "idle" /\ result' = "ok" =>
             /\ Len(transactions') = Len(transactions) + 1
             /\ LET t == transactions'[Len(transactions')]
                IN \A u \in users :
                      balance'[u] =
                         balance[u]
                         + (IF u = t.user_to THEN t.converted_amount ELSE 0)
                         - (IF u = t.user_from THEN t.converted_amount
                            ELSE 0)]_vars

\* Both pays have committed and they overlapped: the second client's call
\* began at instant 0, before the call of test1 that committed row 1, and
\* committed after it as row 2. test1 paid 2 to test2 and test2 paid -1 to
\* test1, so 3 went from test1 to test2.
C32_Witness ==
    /\ peer_pay.pc = "idle"
    /\ result = "ok"
    /\ Len(transactions) = 2
    /\ transactions[1].user_created = "test1"
    /\ transactions[1].user_to = "test2"
    /\ transactions[1].converted_amount = 2
    /\ transactions[2].user_created = "test2"
    /\ transactions[2].user_to = "test2"
    /\ transactions[2].converted_amount = 1
    /\ transactions[2].dt_due_utc < transactions[1].dt_due_utc
    /\ balance["test1"] = -3
    /\ balance["test2"] = 3

\* C33: when two calls of execute_orders overlap on one store, no occurrence
\* of a standing order is paid twice: no two transactions have the same
\* standing order and the same due instant.
C33_OverlappingRunsPayOnce ==
    \A i, j \in DOMAIN transactions :
        (/\ i # j
         /\ transactions[i].standing_order # None
         /\ transactions[i].standing_order = transactions[j].standing_order)
        => transactions[i].dt_due_utc # transactions[j].dt_due_utc

\* Both calls have returned. Each of them read the order at instant 1 with
\* its cursor at 0 and committed a transaction for the occurrences 0 and 1:
\* the order has two transactions for each, and test2 got 4 for 2.
C33_Witness ==
    /\ ex.pc = "idle"
    /\ peer_ex.pc = "idle"
    /\ result = "ok"
    /\ Len(transactions) = 4
    /\ \A d \in {0, 1} :
          Cardinality({i \in DOMAIN transactions :
                          /\ transactions[i].standing_order = Some(1)
                          /\ transactions[i].dt_due_utc = d}) = 2
    /\ orders[1].dt_next_utc = Some(2)
    /\ balance["test2"] = 4

====
